---------------------------- MODULE Spec2Model ----------------------------
(***************************************************************************)
(* A model of the geometric core of xicsrt:                                *)
(*   - GeometryObject (objects/_GeometryObject.py): the local/external     *)
(*     coordinate frame and its vector transforms;                         *)
(*   - XicsrtOpticMesh (optics/_XicsrtOpticMesh.py): mesh precompute, the  *)
(*     exhaustive and the candidate-restricted intersection tests, the     *)
(*     coarse-to-fine refinement in trace, and normal resolution.          *)
(*                                                                         *)
(* Numbers.  A float64 is modelled as an exact rational <<n, d>> in lowest *)
(* terms with d > 0, extended by the IEEE specials <<1,0>> (+inf),         *)
(* <<-1,0>> (-inf) and <<0,0>> (nan).  The inputs of the model are chosen  *)
(* so that every square root taken is rational; signed zeros and rounding  *)
(* are not modelled.                                                       *)
(* Arrays.  A numpy array of shape (N,) or (N,3) is a sequence of length N *)
(* (of numbers, booleans, or 3-vectors); indices are 1-based in the model  *)
(* where numpy's are 0-based, except that face and vertex *indices stored  *)
(* as data* (faces, hits, p_faces_idx) keep numpy's 0-based values.        *)
(***************************************************************************)
EXTENDS Integers, Sequences, FiniteSets, TLC

---------------------------------------------------------------------------
(* float64 arithmetic on extended rationals *)

Abs(i) == IF i < 0 THEN -i ELSE i

Sign(i) == IF i > 0 THEN 1 ELSE IF i < 0 THEN -1 ELSE 0

RECURSIVE GCD(_, _)
GCD(a, b) == IF b = 0 THEN a ELSE GCD(b, a % b)

\* n/d in lowest terms, d > 0 and g the greatest common divisor of n and d.
Lowest(n, d, g) == <<n \div g, d \div g>>

\* n/d as a float: lowest terms; n/0 is +inf, -inf or nan by the sign of n.
Q(n, d) ==
    IF d = 0 THEN <<Sign(n), 0>>
    ELSE Lowest(Sign(d) * n, Abs(d), GCD(Abs(n), Abs(d)))

NaN == <<0, 0>>
PosInf == <<1, 0>>
NegInf == <<-1, 0>>
Zero == <<0, 1>>
One == <<1, 1>>

IsNaN(x) == x = NaN
IsFin(x) == x[2] # 0

FNeg(x) == <<-x[1], x[2]>>

\* The sum of two finite floats, g dividing both denominators.
AddOver(x, y, g) ==
    Q(x[1] * (y[2] \div g) + y[1] * (x[2] \div g), (x[2] \div g) * y[2])

\* The product of two finite floats, g1 dividing x's numerator and y's
\* denominator, g2 dividing y's numerator and x's denominator.
MulOver(x, y, g1, g2) ==
    Q((x[1] \div g1) * (y[1] \div g2), (x[2] \div g2) * (y[2] \div g1))

FAdd(x, y) ==
    IF IsNaN(x) \/ IsNaN(y) THEN NaN
    ELSE IF ~IsFin(x) /\ ~IsFin(y) THEN (IF x = y THEN x ELSE NaN)
    ELSE IF ~IsFin(x) THEN x
    ELSE IF ~IsFin(y) THEN y
    ELSE AddOver(x, y, GCD(x[2], y[2]))

FSub(x, y) == FAdd(x, FNeg(y))

FMul(x, y) ==
    IF IsNaN(x) \/ IsNaN(y) THEN NaN
    ELSE IF ~IsFin(x) \/ ~IsFin(y) THEN <<Sign(x[1]) * Sign(y[1]), 0>>
    ELSE MulOver(x, y, GCD(Abs(x[1]), y[2]), GCD(Abs(y[1]), x[2]))

FDiv(x, y) ==
    IF IsNaN(x) \/ IsNaN(y) THEN NaN
    ELSE IF ~IsFin(x) /\ ~IsFin(y) THEN NaN
    ELSE IF ~IsFin(x) THEN <<x[1] * (IF y[1] < 0 THEN -1 ELSE 1), 0>>
    ELSE IF ~IsFin(y) THEN Zero
    ELSE IF y[1] = 0 THEN <<Sign(x[1]), 0>>
    ELSE FMul(x, <<Sign(y[1]) * y[2], Abs(y[1])>>)

\* Comparisons: every comparison with nan is False.
FLt(x, y) ==
    /\ ~IsNaN(x)
    /\ ~IsNaN(y)
    /\ IF ~IsFin(x) /\ ~IsFin(y) THEN x[1] < y[1]
       ELSE x[1] * y[2] < y[1] * x[2]

FLe(x, y) ==
    /\ ~IsNaN(x)
    /\ ~IsNaN(y)
    /\ IF ~IsFin(x) /\ ~IsFin(y) THEN x[1] <= y[1]
       ELSE x[1] * y[2] <= y[1] * x[2]

FGt(x, y) == FLt(y, x)

FGe(x, y) == FLe(y, x)

FEq(x, y) == ~IsNaN(x) /\ ~IsNaN(y) /\ x = y

\* The exact root of a perfect square (the model's inputs keep roots
\* rational; the root of any other number is an evaluation error).
RECURSIVE FloorSqrt(_, _, _)
FloorSqrt(n, lo, hi) ==
    IF lo >= hi THEN lo
    ELSE LET mid == (lo + hi + 1) \div 2
         IN  IF mid * mid <= n THEN FloorSqrt(n, mid, hi)
             ELSE FloorSqrt(n, lo, mid - 1)

ISqrt(n) == CHOOSE k \in {FloorSqrt(n, 0, IF n < 46340 THEN n ELSE 46340)} : k * k = n

FSqrt(x) ==
    IF IsNaN(x) \/ x = NegInf THEN NaN
    ELSE IF x = PosInf THEN PosInf
    ELSE IF x[1] < 0 THEN NaN
    ELSE <<ISqrt(x[1]), ISqrt(x[2])>>

---------------------------------------------------------------------------
(* 3-vectors *)

Vec(x, y, z) == <<x, y, z>>

\* A vector of integers as floats.
IVec(x, y, z) == <<Q(x, 1), Q(y, 1), Q(z, 1)>>

VAdd(a, b) == <<FAdd(a[1], b[1]), FAdd(a[2], b[2]), FAdd(a[3], b[3])>>

VSub(a, b) == <<FSub(a[1], b[1]), FSub(a[2], b[2]), FSub(a[3], b[3])>>

VScale(s, a) == <<FMul(s, a[1]), FMul(s, a[2]), FMul(s, a[3])>>

VDivS(a, s) == <<FDiv(a[1], s), FDiv(a[2], s), FDiv(a[3], s)>>

\* np.cross
Cross(a, b) ==
    << FSub(FMul(a[2], b[3]), FMul(a[3], b[2])),
       FSub(FMul(a[3], b[1]), FMul(a[1], b[3])),
       FSub(FMul(a[1], b[2]), FMul(a[2], b[1])) >>

\* The contraction of two 3-vectors (np.einsum over the last index, np.dot).
Dot(a, b) == FAdd(FAdd(FMul(a[1], b[1]), FMul(a[2], b[2])), FMul(a[3], b[3]))

\* np.linalg.norm of a 3-vector
VNorm(a) == FSqrt(Dot(a, a))

---------------------------------------------------------------------------
(* Model bounds *)

\* Largest number of vectors in a batch handed to a vector transform.
MaxBatch == 2

\* Largest number of transforms applied to one array between two resets.
MaxOps == 2

---------------------------------------------------------------------------
(* GeometryObject: the coordinate frame *)

\* Python's None for an optional 3-vector; a given vector v is <<v>>.
None == <<>>

VARIABLES
    origin,       \* self.origin
    orientation,  \* self.orientation: rows are the local x, y, z axes
    fcall,        \* the last set_orientation call: its arguments, and what
                  \* get_default_xaxis returned to it
    vec,          \* the caller's array handed to the vector transforms
    vec0,         \* its value when it was created
    hist,         \* the transforms applied to vec since it was created
    ferr          \* the exception a frame method raised, or "none"

frameVars == <<origin, orientation, fcall, vec, vec0, hist, ferr>>

\* XicsrtOpticMesh: one optic and the ray batch it is handed.
VARIABLES
    param,        \* self.param: the config and, once built, the mesh models
    pc,           \* where the optic is in its life: "config", "checked",
                  \* "ready", then "returned" or "raised" after a call, and
                  \* "external" and "local" as the returned rays are
                  \* transformed
    err,          \* the exception that ended the last step, or "none"
    rays,         \* the ray batch (a struct of arrays), changed in place
    rays0,        \* the ray batch on entry of the last call
    tr            \* the locals and return values of the last call of
                  \* mesh_intersect_1 or trace

meshVars == <<param, pc, err, rays, rays0, tr>>

vars == <<frameVars, meshVars>>

\* Mutant of get_default_xaxis: the cross product taken in the other order.
get_default_xaxis_reversed(zaxis) ==
    LET xaxis == Cross(zaxis, IVec(0, 0, 1))
    IN  IF ~(\A i \in 1..3 : FEq(xaxis[i], Zero))
        THEN VDivS(xaxis, VNorm(xaxis))
        ELSE IVec(1, 0, 0)

\* get_default_xaxis: cross(global z, zaxis), normalised unless it is zero.
get_default_xaxis(zaxis) ==
    LET xaxis == Cross(IVec(0, 0, 1), zaxis)
    IN  IF ~(\A i \in 1..3 : FEq(xaxis[i], Zero))
        THEN VDivS(xaxis, VNorm(xaxis))
        ELSE IVec(1, 0, 0)

\* Mutant of set_orientation: the y axis taken as x cross z (left-handed).
set_orientation_lefthanded(zaxis, xaxis) ==
    LET x == IF xaxis = None THEN get_default_xaxis(zaxis) ELSE xaxis[1]
    IN  <<x, Cross(x, zaxis), zaxis>>

\* set_orientation: the new value of self.orientation.
set_orientation(zaxis, xaxis) ==
    LET x == IF xaxis = None THEN get_default_xaxis(zaxis) ELSE xaxis[1]
    IN  <<x, Cross(zaxis, x), zaxis>>

\* An ndarray is [ndim, a]: its rank and its 3-vectors in row-major order
\* (one for rank 1, the batch for rank 2); a rank-0 array holds a bare number
\* and no 3-vector.

\* np.einsum('ij,i->j', R, v): out[j] = sum_i R[i][j] * v[i]
einsum_ij_i_j(R, v) ==
    [j \in 1..3 |->
        FAdd(FAdd(FMul(R[1][j], v[1]), FMul(R[2][j], v[2])), FMul(R[3][j], v[3]))]

\* np.einsum('ji,i->j', R, v): out[j] = sum_i R[j][i] * v[i]
einsum_ji_i_j(R, v) ==
    [j \in 1..3 |->
        FAdd(FAdd(FMul(R[j][1], v[1]), FMul(R[j][2], v[2])), FMul(R[j][3], v[3]))]

\* np.einsum('ij,ki->kj', R, V) and np.einsum('ji,ki->kj', R, V)
einsum_ij_ki_kj(R, V) == [k \in 1..Len(V) |-> einsum_ij_i_j(R, V[k])]

einsum_ji_ki_kj(R, V) == [k \in 1..Len(V) |-> einsum_ji_i_j(R, V[k])]

\* Mutant of vector_to_external: contracts along the column index of R.
vector_to_external_swapped(R, vector) ==
    IF vector.ndim = 2
    THEN [raised |-> FALSE, vector |-> [vector EXCEPT !.a = einsum_ji_ki_kj(R, vector.a)]]
    ELSE IF vector.ndim = 1
    THEN [raised |-> FALSE, vector |-> [vector EXCEPT !.a = <<einsum_ji_i_j(R, vector.a[1])>>]]
    ELSE [raised |-> TRUE, vector |-> vector]

\* Mutant of vector_to_local: the same contraction as vector_to_external
\* (the transposition forgotten).
vector_to_local_untransposed(R, vector) ==
    IF vector.ndim = 2
    THEN [raised |-> FALSE, vector |-> [vector EXCEPT !.a = einsum_ij_ki_kj(R, vector.a)]]
    ELSE IF vector.ndim = 1
    THEN [raised |-> FALSE, vector |-> [vector EXCEPT !.a = <<einsum_ij_i_j(R, vector.a[1])>>]]
    ELSE [raised |-> TRUE, vector |-> vector]

\* Mutant of vector_to_external: an array of rank 3 is taken as a batch (its
\* leading axes merged) instead of being refused.
vector_to_external_reshaping(R, vector) ==
    IF vector.ndim \in {2, 3}
    THEN [raised |-> FALSE, vector |-> [vector EXCEPT !.a = einsum_ij_ki_kj(R, vector.a)]]
    ELSE IF vector.ndim = 1
    THEN [raised |-> FALSE, vector |-> [vector EXCEPT !.a = <<einsum_ij_i_j(R, vector.a[1])>>]]
    ELSE [raised |-> TRUE, vector |-> vector]

\* vector_to_external / vector_to_local: the array after the call (it is
\* overwritten in place, vector[:] = ...), or that the call raised.
vector_to_external(R, vector) ==
    IF vector.ndim = 2
    THEN [raised |-> FALSE, vector |-> [vector EXCEPT !.a = einsum_ij_ki_kj(R, vector.a)]]
    ELSE IF vector.ndim = 1
    THEN [raised |-> FALSE, vector |-> [vector EXCEPT !.a = <<einsum_ij_i_j(R, vector.a[1])>>]]
    ELSE [raised |-> TRUE, vector |-> vector]

vector_to_local(R, vector) ==
    IF vector.ndim = 2
    THEN [raised |-> FALSE, vector |-> [vector EXCEPT !.a = einsum_ji_ki_kj(R, vector.a)]]
    ELSE IF vector.ndim = 1
    THEN [raised |-> FALSE, vector |-> [vector EXCEPT !.a = <<einsum_ji_i_j(R, vector.a[1])>>]]
    ELSE [raised |-> TRUE, vector |-> vector]

\* point_to_external: vector_to_external(point_local) + self.origin, a new
\* array.
point_to_external(R, org, point_local) ==
    LET r == vector_to_external(R, point_local)
    IN  IF r.raised THEN r
        ELSE [raised |-> FALSE,
              vector |-> [r.vector EXCEPT
                            !.a = [k \in 1..Len(r.vector.a) |-> VAdd(r.vector.a[k], org)]]]

\* point_external - self.origin is a new array: by broadcasting an array of
\* rank 0 gives one of rank 1 (the scalar less each coordinate of the origin),
\* any other rank is kept.  The argument itself is never written; when
\* vector_to_local raises there is no result and the argument is reported.
point_to_local(R, org, point_external) ==
    LET diff == IF point_external.ndim = 0
                THEN [ndim |-> 1,
                      a |-> <<[j \in 1..3 |-> FSub(point_external.a[1][1], org[j])]>>]
                ELSE [point_external EXCEPT
                        !.a = [k \in 1..Len(point_external.a) |->
                                  VSub(point_external.a[k], org)]]
        r == vector_to_local(R, diff)
    IN  IF r.raised THEN [raised |-> TRUE, vector |-> point_external] ELSE r

\* Mutant of ray_to_external: the returned ray is built anew from the
\* transformed origin and direction and the mask; the wavelength and weight
\* arrays are not carried over.
ray_to_external_bare(R, org, ray_local, copy) ==
    LET o == point_to_external(R, org, [ndim |-> 2, a |-> ray_local.origin])
        d == vector_to_external(R, [ndim |-> 2, a |-> ray_local.direction])
    IN  [ raised |-> o.raised \/ d.raised,
          ray |-> [ origin |-> o.vector.a, direction |-> d.vector.a,
                    mask |-> ray_local.mask, wavelength |-> <<>>, weight |-> <<>> ] ]

\* ray_to_external(ray_local, copy) and ray_to_local(ray_external, copy):
\* [raised, ray], ray being the returned struct of arrays.  It is the
\* argument itself (copy False) or a deepcopy of it (copy True); the keys
\* 'origin' and 'direction' are assigned, no other key is touched.  The
\* arrays of a batch are of rank 2.
ray_to_external(R, org, ray_local, copy) ==
    LET o == point_to_external(R, org, [ndim |-> 2, a |-> ray_local.origin])
        d == vector_to_external(R, [ndim |-> 2, a |-> ray_local.direction])
    IN  [ raised |-> o.raised \/ d.raised,
          ray |-> [ray_local EXCEPT !.origin = o.vector.a, !.direction = d.vector.a] ]

ray_to_local(R, org, ray_external, copy) ==
    LET o == point_to_local(R, org, [ndim |-> 2, a |-> ray_external.origin])
        d == vector_to_local(R, [ndim |-> 2, a |-> ray_external.direction])
    IN  [ raised |-> o.raised \/ d.raised,
          ray |-> [ray_external EXCEPT !.origin = o.vector.a, !.direction = d.vector.a] ]

\* Inputs.
ZAxes ==
    { IVec(0, 0, 1), IVec(0, 0, -1), IVec(1, 0, 0), IVec(0, 1, 0),
      Vec(Q(3, 5), Q(4, 5), Zero), Vec(Zero, Q(3, 5), Q(4, 5)),
      IVec(0, 0, 2), IVec(3, 4, 0), IVec(0, 0, 0) }

XAxes == { IVec(1, 0, 0), IVec(0, 1, 0), Vec(Q(4, 5), Q(-3, 5), Zero) }

VecValues == { IVec(1, 0, 0), IVec(1, 2, 3), Vec(Q(1, 5), Q(-1, 2), Zero) }

\* An array of rank 0 holds one scalar, kept as a single row of one entry.
ScalarValues == { Q(5, 1) }

Arrays ==
    {[ndim |-> 0, a |-> <<<<x>>>>] : x \in ScalarValues}
    \cup {[ndim |-> 1, a |-> <<v>>] : v \in VecValues}
    \cup {[ndim |-> 2, a |-> V] : V \in UNION {[1..n -> VecValues] : n \in 0..MaxBatch}}
    \cup {[ndim |-> 3, a |-> <<IVec(1, 2, 3)>>]}

DefaultZAxis == IVec(0, 0, 1)

---------------------------------------------------------------------------
(* XicsrtOpticMesh: arrays *)

\* Largest number of rays in a batch.
MaxRays == 2

\* The capacity of a vertex's face list (the 8 of np.zeros((8, len(m)))).
K == 8

\* An entry of np.empty(num_rays, dtype=np.int) that was never written: it
\* holds whatever the memory held.  The value is drawn when it is read.
Uninit == -1

\* A numpy array is a value, computed once when it is built: ndarray(a) is
\* the sequence a with its entries evaluated.
ndarray(a) == a \o <<>>

\* arr[mask] for a boolean mask: the entries where the mask is True.
RECURSIVE BoolIndexFrom(_, _, _)
BoolIndexFrom(arr, mask, k) ==
    IF k > Len(mask) THEN <<>>
    ELSE (IF mask[k] THEN <<arr[k]>> ELSE <<>>) \o BoolIndexFrom(arr, mask, k + 1)

BoolIndex(arr, mask) == BoolIndexFrom(arr, mask, 1)

\* np.any and np.sum of a boolean array
AnyTrue(m) == \E k \in 1..Len(m) : m[k]

CountTrue(m) == Cardinality({k \in 1..Len(m) : m[k]})

\* numpy broadcasting of an array of shape (n,) against shape (N,): allowed
\* when n = N or n = 1; an in-place result must have the shape (N,).
Broadcastable(n, N) == n = N \/ (n = 1 /\ N >= 1)

\* Entry k of arr broadcast to a longer shape.
Bc(arr, k) == IF Len(arr) = 1 THEN arr[1] ELSE arr[k]

\* (f > -epsilon) & (f < epsilon) with epsilon = 1e-15.  Every float of the
\* model is n/d with |n|, d < 2^31 < 1e15, so |n/d| < 1e-15 exactly when n = 0.
InEpsilon(f) == IsFin(f) /\ f[1] = 0

\* diff < 1e-10: for the same reason, exactly when diff <= 0.
BelowTolerance(diff) == FLe(diff, Zero)

---------------------------------------------------------------------------
(* XicsrtOpticMesh: mesh precompute *)

\* mesh['faces'][..., c] gathered through mesh['points']: vertex c of each face.
FacePoints(points, faces, c) == [i \in 1..Len(faces) |-> points[faces[i][c] + 1]]

\* np.nonzero(np.equal(faces, v))[0] from row i on: the (0-based) row of every
\* entry of faces equal to v, in row-major order.
RECURSIVE NonzeroRows(_, _, _)
NonzeroRows(faces, v, i) ==
    IF i > Len(faces) THEN <<>>
    ELSE [c \in 1..Cardinality({c \in 1..3 : faces[i][c] = v}) |-> i - 1]
         \o NonzeroRows(faces, v, i + 1)

\* Mutant of find_point_faces: the faces of a vertex beyond the first K are
\* dropped without an error (p_faces_idx[:faces_num, ii_p] = ii_f[:8]).
find_point_faces_truncating(p_idx, faces, mask) ==
    LET M == Len(p_idx)
        visited == {p_idx[j] : j \in 1..M}
        ii_f(ii_p) == IF ii_p \in visited
                      THEN NonzeroRows(faces, p_idx[ii_p + 1], 1) ELSE <<>>
    IN  [ raised |-> \E ii_p \in visited : ii_p >= M,
          exc |-> "IndexError",
          p_faces_idx |->
            [c \in 1..M |->
                [k \in 1..K |-> IF k <= Len(ii_f(c - 1)) THEN ii_f(c - 1)[k] ELSE 0]],
          p_faces_mask |->
            [c \in 1..M |-> [k \in 1..K |-> k <= Len(ii_f(c - 1))]] ]

\* Mutant of find_point_faces: the last face of each vertex is left out
\* (p_faces_mask[:faces_num - 1, ii_p] = True).
find_point_faces_short(p_idx, faces, mask) ==
    LET M == Len(p_idx)
        visited == {p_idx[j] : j \in 1..M}
        ii_f(ii_p) == IF ii_p \in visited
                      THEN NonzeroRows(faces, p_idx[ii_p + 1], 1) ELSE <<>>
    IN  [ raised |-> \E ii_p \in visited : ii_p >= M \/ Len(ii_f(ii_p)) > K,
          exc |-> "ValueError",
          p_faces_idx |->
            [c \in 1..M |->
                [k \in 1..K |-> IF k < Len(ii_f(c - 1)) THEN ii_f(c - 1)[k] ELSE 0]],
          p_faces_mask |->
            [c \in 1..M |-> [k \in 1..K |-> k < Len(ii_f(c - 1))]] ]

\* numpy indexing of an axis of length n with the integer i: i may be
\* -n..n-1, a negative i counting from the end; any other i raises IndexError.
InAxis(i, n) == -n <= i /\ i < n

WrapIndex(i, n) == IF i < 0 THEN i + n ELSE i

\* One pass of the loop of find_point_faces (lines 424-428), ii_p being the
\* VALUE of p_idx the loop is at and C the number of columns: the rows of the
\* entries of faces equal to the vertex p_idx[ii_p] are written into the
\* first faces_num slots of column ii_p and their flags set; the other slots
\* of the column keep what they held.  p_idx[ii_p] or the column ii_p out of
\* range raises IndexError, more than K rows for the K slots ValueError
\* (could not broadcast input array).
find_point_faces_pass(acc, ii_p, p_idx, faces, C) ==
    IF acc.raised THEN acc
    ELSE IF ~InAxis(ii_p, Len(p_idx)) \/ ~InAxis(ii_p, C)
    THEN [acc EXCEPT !.raised = TRUE, !.exc = "IndexError"]
    ELSE IF Len(NonzeroRows(faces, p_idx[WrapIndex(ii_p, Len(p_idx)) + 1], 1)) > K
    THEN [acc EXCEPT !.raised = TRUE, !.exc = "ValueError"]
    ELSE [acc EXCEPT
            !.p_faces_idx[WrapIndex(ii_p, C) + 1] =
                [k \in 1..K |->
                    IF k <= Len(NonzeroRows(faces, p_idx[WrapIndex(ii_p, Len(p_idx)) + 1], 1))
                    THEN NonzeroRows(faces, p_idx[WrapIndex(ii_p, Len(p_idx)) + 1], 1)[k]
                    ELSE @[k]],
            !.p_faces_mask[WrapIndex(ii_p, C) + 1] =
                [k \in 1..K |->
                    k <= Len(NonzeroRows(faces, p_idx[WrapIndex(ii_p, Len(p_idx)) + 1], 1))
                    \/ @[k]] ]

\* for ii_p in p_idx, from position j (1-based) on.
RECURSIVE find_point_faces_loop(_, _, _, _, _)
find_point_faces_loop(p_idx, faces, C, j, acc) ==
    IF j > Len(p_idx) THEN acc
    ELSE find_point_faces_loop(p_idx, faces, C, j + 1,
                               find_point_faces_pass(acc, p_idx[j], p_idx, faces, C))

\* find_point_faces(p_idx, faces, mask): [raised, exc, p_faces_idx,
\* p_faces_mask].  mask is <<>> when the argument is omitted (None) and <<m>>
\* when the array m is given; only its length is used, as the number C of
\* columns, which is len(p_idx) when it is omitted.  Before the loop the
\* arrays are C columns of K slots, all zero and False (lines 422-423); the
\* model keeps one row per column of the code.
find_point_faces(p_idx, faces, mask) ==
    LET C == IF Len(mask) = 0 THEN Len(p_idx) ELSE Len(mask[1])
    IN  find_point_faces_loop(
            p_idx, faces, C, 1,
            [ raised |-> FALSE, exc |-> "none",
              p_faces_idx |-> [c \in 1..C |-> [k \in 1..K |-> 0]],
              p_faces_mask |-> [c \in 1..C |-> [k \in 1..K |-> FALSE]] ])

\* A mesh model that has not been built (the key is absent from self.param).
NoMesh ==
    [ built |-> FALSE, faces |-> <<>>, points |-> <<>>, normals |-> <<>>,
      interp |-> FALSE, faces_center |-> <<>>, faces_normal |-> <<>>,
      p_faces_idx |-> <<>>, p_faces_mask |-> <<>> ]

\* Mutant of mesh_precalc: with per-vertex normals supplied, the normal of a
\* face is the normalised sum of the normals of its three vertices.
mesh_precalc_from_vertex_normals(points, normals, faces, mesh_interpolate) ==
    LET p0 == FacePoints(points, faces, 1)
        p1 == FacePoints(points, faces, 2)
        p2 == FacePoints(points, faces, 3)
        three == Q(3, 1)
        faces_center ==
            [i \in 1..Len(faces) |-> VDivS(VAdd(VAdd(p0[i], p1[i]), p2[i]), three)]
        cr == [i \in 1..Len(faces) |->
                 IF normals = <<>>
                 THEN Cross(VSub(p0[i], p1[i]), VSub(p2[i], p1[i]))
                 ELSE VAdd(VAdd(normals[faces[i][1] + 1], normals[faces[i][2] + 1]),
                           normals[faces[i][3] + 1])]
        faces_normal == [i \in 1..Len(faces) |-> VDivS(cr[i], VNorm(cr[i]))]
        points_idx == [v \in 1..Len(points) |-> v - 1]
        pf == find_point_faces(points_idx, faces, <<>>)
    IN  IF mesh_interpolate /\ normals = <<>>
        THEN [raised |-> TRUE, exc |-> "TypeError", mesh |-> NoMesh]
        ELSE IF pf.raised
        THEN [raised |-> TRUE, exc |-> pf.exc, mesh |-> NoMesh]
        ELSE [ raised |-> FALSE, exc |-> "none",
               mesh |-> [ built |-> TRUE, faces |-> faces, points |-> points,
                          normals |-> normals, interp |-> mesh_interpolate,
                          faces_center |-> faces_center,
                          faces_normal |-> faces_normal,
                          p_faces_idx |-> pf.p_faces_idx,
                          p_faces_mask |-> pf.p_faces_mask ] ]

\* _mesh_precalc(points, normals, faces) under self.param['mesh_interpolate']:
\* [raised, exc, mesh].  normals is <<>> for None.  The interpolators and the
\* KD-tree are scipy objects: the model keeps whether the interpolators
\* exist (interp) and queries the tree on mesh.points.
mesh_precalc(points, normals, faces, mesh_interpolate) ==
    LET p0 == FacePoints(points, faces, 1)
        p1 == FacePoints(points, faces, 2)
        p2 == FacePoints(points, faces, 3)
        three == Q(3, 1)
        faces_center ==
            [i \in 1..Len(faces) |-> VDivS(VAdd(VAdd(p0[i], p1[i]), p2[i]), three)]
        cr == [i \in 1..Len(faces) |-> Cross(VSub(p0[i], p1[i]), VSub(p2[i], p1[i]))]
        faces_normal == [i \in 1..Len(faces) |-> VDivS(cr[i], VNorm(cr[i]))]
        points_idx == [v \in 1..Len(points) |-> v - 1]
        pf == find_point_faces(points_idx, faces, <<>>)
    IN  IF mesh_interpolate /\ normals = <<>>
        THEN [raised |-> TRUE, exc |-> "TypeError", mesh |-> NoMesh]
        ELSE IF pf.raised
        THEN [raised |-> TRUE, exc |-> pf.exc, mesh |-> NoMesh]
        ELSE [ raised |-> FALSE, exc |-> "none",
               mesh |-> [ built |-> TRUE, faces |-> faces, points |-> points,
                          normals |-> normals, interp |-> mesh_interpolate,
                          faces_center |-> faces_center,
                          faces_normal |-> faces_normal,
                          p_faces_idx |-> pf.p_faces_idx,
                          p_faces_mask |-> pf.p_faces_mask ] ]

---------------------------------------------------------------------------
(* XicsrtOpticMesh: the exhaustive test, mesh_intersect_1 *)

\* Mutant of RayPoint: the ray followed backwards.
RayPoint_backwards(O, t, D) == VSub(O, VScale(t, D))

\* O + t * D
RayPoint(O, t, D) == VAdd(O, VScale(t, D))

\* Mutant of final_mask: the mask is left as it was on entry.
final_mask_unnarrowed(m, m_temp_2) == m

\* m &= m_temp_2
final_mask(m, m_temp_2) == ndarray([k \in 1..Len(m) |-> m[k] /\ m_temp_2[k]])

\* np.cross(A, e): each row of A crossed with e  (lines 292, 305)
cross_rows(A, e) == ndarray([k \in 1..Len(A) |-> Cross(A[k], e)])

\* np.einsum('i,ji->j', e, A)  (lines 293, 311)
einsum_i_ji_j(e, A) == ndarray([k \in 1..Len(A) |-> Dot(e, A[k])])

\* np.einsum('ij,ij->i', A, B), a one-row B being broadcast  (lines 300, 306)
einsum_ij_ij_i(A, B) == ndarray([k \in 1..Len(A) |-> Dot(A[k], Bc(B, k))])

\* f * a, a one-entry f being broadcast
times(f, a) == ndarray([k \in 1..Len(a) |-> FMul(Bc(f, k), a[k])])

\* f = 1.0 / f
reciprocal(f) == ndarray([k \in 1..Len(f) |-> FDiv(One, f[k])])

\* s = O - p0[ii, :]
minus_row(O, p) == ndarray([k \in 1..Len(O) |-> VSub(O[k], p)])

\* Mutant of narrow_f: the near-parallel test left out.
narrow_f_skipped(m_temp, f) ==
    ndarray([k \in 1..Len(m_temp) |-> m_temp[k]])

\* m_temp &= ~((f > -epsilon) & (f < epsilon))
narrow_f(m_temp, f) ==
    ndarray([k \in 1..Len(m_temp) |-> m_temp[k] /\ ~InEpsilon(Bc(f, k))])

\* m_temp &= ~((u < 0.0) | (u > 1.0))
narrow_u(m_temp, u) ==
    ndarray([k \in 1..Len(m_temp) |->
                m_temp[k] /\ ~(FLt(u[k], Zero) \/ FGt(u[k], One))])

\* m_temp &= ~((v < 0.0) | (u + v > 1.0))
narrow_v(m_temp, u, v) ==
    ndarray([k \in 1..Len(m_temp) |->
                m_temp[k] /\ ~(FLt(v[k], Zero) \/ FGt(FAdd(u[k], v[k]), One))])

\* Mutant of face_update: a ray that an earlier face accepted keeps the hit
\* of that face.
face_update_first(acc, m_temp, ii, O, t, D) ==
    [ raised |-> FALSE,
      m_temp_2 |-> ndarray([k \in 1..Len(m_temp) |->
                               IF m_temp[k] THEN TRUE ELSE acc.m_temp_2[k]]),
      hits |-> ndarray([k \in 1..Len(m_temp) |->
                           IF m_temp[k] /\ ~acc.m_temp_2[k] THEN ii - 1 ELSE acc.hits[k]]),
      X |-> ndarray([k \in 1..Len(m_temp) |->
                        IF m_temp[k] /\ ~acc.m_temp_2[k]
                        THEN RayPoint(O[k], t[k], D[k]) ELSE acc.X[k]]) ]

\* Lines 314-316: m_temp_2, hits and X are written where m_temp is True.
face_update(acc, m_temp, ii, O, t, D) ==
    [ raised |-> FALSE,
      m_temp_2 |-> ndarray([k \in 1..Len(m_temp) |->
                               IF m_temp[k] THEN TRUE ELSE acc.m_temp_2[k]]),
      hits |-> ndarray([k \in 1..Len(m_temp) |->
                           IF m_temp[k] THEN ii - 1 ELSE acc.hits[k]]),
      X |-> ndarray([k \in 1..Len(m_temp) |->
                        IF m_temp[k] THEN RayPoint(O[k], t[k], D[k]) ELSE acc.X[k]]) ]

\* One pass of the loop over faces, for face ii (1-based): acc holds
\* m_temp_2, hits and X, and whether an earlier pass raised.  h and f have
\* one entry per ray that is active on entry; m_temp, s, u, q, v and t one per
\* ray.
mesh_intersect_1_face(O, D, m, p0, p1, p2, ii, acc) ==
    LET edge1 == VSub(p1[ii], p0[ii])
        edge2 == VSub(p2[ii], p0[ii])
        h == cross_rows(BoolIndex(D, m), edge2)
        f == einsum_i_ji_j(edge1, h)
        m_temp1 == narrow_f(m, f)
        finv == reciprocal(f)
        s == minus_row(O, p0[ii])
        u == times(finv, einsum_ij_ij_i(s, h))
        m_temp2 == narrow_u(m_temp1, u)
        q == cross_rows(s, edge1)
        v == times(finv, einsum_ij_ij_i(D, q))
        m_temp3 == narrow_v(m_temp2, u, v)
        t == times(finv, einsum_i_ji_j(edge2, q))
    IN  IF acc.raised THEN acc
        ELSE IF ~Broadcastable(Len(f), Len(m)) THEN [acc EXCEPT !.raised = TRUE]
        ELSE IF ~AnyTrue(m_temp1) THEN acc
        ELSE IF ~AnyTrue(m_temp2) THEN acc
        ELSE IF ~AnyTrue(m_temp3) THEN acc
        ELSE face_update(acc, m_temp3, ii, O, t, D)

RECURSIVE mesh_intersect_1_loop(_, _, _, _, _, _, _, _)
mesh_intersect_1_loop(O, D, m, p0, p1, p2, ii, acc) ==
    IF ii > Len(p0) THEN acc
    ELSE mesh_intersect_1_loop(O, D, m, p0, p1, p2, ii + 1,
                               mesh_intersect_1_face(O, D, m, p0, p1, p2, ii, acc))

\* The end of mesh_intersect_1 (m &= m_temp_2; return X, rays, hits), acc
\* being what the loop over faces left: [raised, X, mask, hits], mask being
\* rays['mask'] after the call (it is narrowed in place on return only).
mesh_intersect_1_return(m, acc) ==
    [ raised |-> acc.raised,
      X |-> acc.X,
      hits |-> acc.hits,
      mask |-> IF acc.raised THEN m ELSE final_mask(m, acc.m_temp_2) ]

\* mesh_intersect_1(rays, mesh)
mesh_intersect_1(r, mesh) ==
    mesh_intersect_1_return(
        r.mask,
        mesh_intersect_1_loop(
            r.origin, r.direction, r.mask,
            FacePoints(mesh.points, mesh.faces, 1),
            FacePoints(mesh.points, mesh.faces, 2),
            FacePoints(mesh.points, mesh.faces, 3),
            1,
            [ raised |-> FALSE,
              m_temp_2 |-> [k \in 1..Len(r.mask) |-> FALSE],
              hits |-> [k \in 1..Len(r.mask) |-> Uninit],
              X |-> [k \in 1..Len(r.mask) |-> IVec(0, 0, 0)] ]))
---------------------------------------------------------------------------
(* XicsrtOpticMesh: the candidate-restricted test, mesh_intersect_2 *)

\* Lines 373-381: the areas of the three triangles the point x spans with
\* the sides of the face, less the area of the face (all doubled).
area_diff(x, p0, p1, p2) ==
    LET a == VSub(x, p0)
        b == VSub(x, p1)
        c == VSub(x, p2)
    IN  FSub(FAdd(FAdd(VNorm(Cross(b, c)), VNorm(Cross(c, a))), VNorm(Cross(a, b))),
             VNorm(Cross(VSub(p0, p1), VSub(p0, p2))))

\* Lines 368-381 for one ray and one candidate, dist being t1 / t2.
candidate_at(dist, O, D, p0, p1, p2) ==
    [ dist |-> dist,
      intersect |-> VAdd(VScale(dist, D), O),
      diff |-> area_diff(VAdd(VScale(dist, D), O), p0, p1, p2) ]

\* What mesh_intersect_2 computes for one ray (O, D) and one candidate face
\* fi (0-based): the plane intersection and the area difference.
candidate(O, D, mesh, fi) ==
    candidate_at(FDiv(Dot(VSub(mesh.points[mesh.faces[fi + 1][1] + 1], O),
                          mesh.faces_normal[fi + 1]),
                      Dot(D, mesh.faces_normal[fi + 1])),
                 O, D,
                 mesh.points[mesh.faces[fi + 1][1] + 1],
                 mesh.points[mesh.faces[fi + 1][2] + 1],
                 mesh.points[mesh.faces[fi + 1][3] + 1])

\* test = (diff < 1e-10) & (dist >= 0) & faces_mask, for one ray and slot
\* (the three operands are plain booleans, so their order is immaterial)
candidate_test(cand, slot_mask) ==
    slot_mask /\ BelowTolerance(cand.diff) /\ FGe(cand.dist, Zero)

\* np.argmax of a boolean array with a True entry: the first one.
ArgMax(test) == CHOOSE i \in 1..Len(test) : test[i] /\ \A j \in 1..(i - 1) : ~test[j]

\* Lines 386-396: m &= np.any(test, axis=0); hits and X are written where m
\* is True, from the first candidate that passed.
mesh_intersect_2_return(m, faces_idx, cand, test) ==
    [ raised |-> FALSE,
      mask |-> ndarray([k \in 1..Len(m) |-> m[k] /\ AnyTrue(test[k])]),
      hits |-> ndarray([k \in 1..Len(m) |->
                          IF m[k] /\ AnyTrue(test[k])
                          THEN faces_idx[k][ArgMax(test[k])] ELSE Uninit]),
      X |-> ndarray([k \in 1..Len(m) |->
                       IF m[k] /\ AnyTrue(test[k])
                       THEN cand[k][ArgMax(test[k])].intersect
                       ELSE IVec(0, 0, 0)]) ]

\* The test of every candidate of every ray, an index below 0 counting from
\* the last face.
candidate_tests(r, mesh, faces_idx, faces_mask) ==
    ndarray([k \in 1..Len(r.mask) |->
        ndarray([i \in 1..K |->
            candidate_test(candidate(r.origin[k], r.direction[k], mesh,
                                     WrapIndex(faces_idx[k][i], Len(mesh.faces))),
                           faces_mask[k][i])])])

\* mesh_intersect_2(rays, mesh, faces_idx, faces_mask): [raised, X, mask,
\* hits].  faces_idx[k] and faces_mask[k] are the K candidates of ray k.
\* faces = mesh['faces'][faces_idx] (line 357) and
\* n = mesh['faces_normal'][faces_idx] (line 361) look up every slot of every
\* ray, the padded slots and the slots of inactive rays too, before any test
\* is made: an index outside the face axis raises IndexError, and the mask
\* is then as it was on entry (m &= ... of line 386 has not run).
mesh_intersect_2(r, mesh, faces_idx, faces_mask) ==
    IF \E k \in 1..Len(faces_idx) :
         \E i \in 1..K : ~InAxis(faces_idx[k][i], Len(mesh.faces))
    THEN [raised |-> TRUE, mask |-> r.mask, hits |-> <<>>, X |-> <<>>]
    ELSE mesh_intersect_2_return(
             r.mask, faces_idx,
             [k \in 1..Len(r.mask) |->
                 [i \in 1..K |->
                     candidate(r.origin[k], r.direction[k], mesh,
                               WrapIndex(faces_idx[k][i], Len(mesh.faces)))]],
             candidate_tests(r, mesh, faces_idx, faces_mask))

\* The answers mesh['points_tree'].query(x)[1] may give: the (0-based)
\* vertices nearest to x.  Which of several equally near vertices the tree
\* returns is left open.
Nearest(x, points) ==
    LET d2(v) == Dot(VSub(x, points[v + 1]), VSub(x, points[v + 1]))
    IN  {v \in 0..(Len(points) - 1) :
            \A w \in 0..(Len(points) - 1) : FLe(d2(v), d2(w))}

\* find_near_faces(X, mesh), idx being what the tree query returned.
find_near_faces(idx, mesh) ==
    [ faces_idx |-> [k \in 1..Len(idx) |-> mesh.p_faces_idx[idx[k] + 1]],
      faces_mask |-> [k \in 1..Len(idx) |-> mesh.p_faces_mask[idx[k] + 1]] ]

---------------------------------------------------------------------------
(* XicsrtOpticMesh: normal resolution *)

\* mesh_normals(hits, mesh) = mesh['faces_normal'][hits, :].  The whole of
\* hits is used as an index; idxval[k] is the integer found in entry k (for
\* an entry never written: whatever the memory held).  An index outside the
\* array raises IndexError.
mesh_normals(idxval, mesh) ==
    IF \E k \in 1..Len(idxval) : idxval[k] >= Len(mesh.faces_normal)
    THEN [raised |-> TRUE, normals |-> <<>>]
    ELSE [raised |-> FALSE,
          normals |-> [k \in 1..Len(idxval) |-> mesh.faces_normal[idxval[k] + 1]]]

\* The final einsum of mesh_interpolate: np.einsum('i,ij->ij', norm, normals),
\* out[i][j] = norm[i] * normals[i][j].
einsum_i_ij_ij(nrm, normals) ==
    ndarray([i \in 1..Len(normals) |-> VScale(nrm[i], normals[i])])

\* Interpolator(points[:, 0:2], values)(x, y).  The meshes of the model
\* carry data that is an affine function of (x, y), which the
\* CloughTocher2DInterpolator reproduces: the value at (x, y) is that of the
\* affine function through the data at the first, the second and the last
\* point.  (Outside the convex hull of the points the interpolator returns
\* nan; trace evaluates it at hit points and at (0, 0), which are inside.)
Interpolator(points, values, x, y) ==
    LET a == points[1]
        b == points[2]
        c == points[Len(points)]
        bx == FSub(b[1], a[1])
        by == FSub(b[2], a[2])
        cx == FSub(c[1], a[1])
        cy == FSub(c[2], a[2])
        px == FSub(x, a[1])
        py == FSub(y, a[2])
        det == FSub(FMul(bx, cy), FMul(cx, by))
        s == FDiv(FSub(FMul(px, cy), FMul(cx, py)), det)
        t == FDiv(FSub(FMul(bx, py), FMul(px, by)), det)
    IN  FAdd(FAdd(values[1], FMul(s, FSub(values[2], values[1]))),
             FMul(t, FSub(values[Len(points)], values[1])))

\* mesh['interp']['normal_x'|'normal_y'|'normal_z'](X[:, 0], X[:, 1]): the
\* three interpolated components at each X (mesh_interpolate, lines 168-170)
interp_normals(X, mesh) ==
    ndarray([k \in 1..Len(X) |->
        Vec(Interpolator(mesh.points, [v \in 1..Len(mesh.points) |-> mesh.normals[v][1]],
                         X[k][1], X[k][2]),
            Interpolator(mesh.points, [v \in 1..Len(mesh.points) |-> mesh.normals[v][2]],
                         X[k][1], X[k][2]),
            Interpolator(mesh.points, [v \in 1..Len(mesh.points) |-> mesh.normals[v][3]],
                         X[k][1], X[k][2]))])

\* mesh_interpolate(X, mesh, mask): [X, normals], inrm being the interpolated
\* components.  X[:, 2] is overwritten by the interpolated height; mask is
\* not used.
mesh_interpolate(X, mesh, inrm) ==
    [ X |-> ndarray([k \in 1..Len(X) |->
                Vec(X[k][1], X[k][2],
                    Interpolator(mesh.points,
                                 [v \in 1..Len(mesh.points) |-> mesh.points[v][3]],
                                 X[k][1], X[k][2]))]),
      normals |-> einsum_i_ij_ij([k \in 1..Len(X) |-> VNorm(inrm[k])], inrm) ]

---------------------------------------------------------------------------
(* XicsrtOpticMesh: configuration and set-up *)

\* check_param: [raised, param].  self.param has no key 'mesh_course_points'
\* (the config key is 'mesh_coarse_points'), so looking it up raises KeyError.
check_param(p) ==
    LET p1 == IF p.mesh_normals = <<>> THEN [p EXCEPT !.mesh_interpolate = FALSE]
              ELSE p
    IN  IF p1.mesh_refine = "None"
        THEN [raised |-> TRUE, exc |-> "KeyError", param |-> p1]
        ELSE [raised |-> FALSE, exc |-> "none", param |-> p1]

\* mesh_initialize: [raised, exc, param].
mesh_initialize(p) ==
    LET fine == mesh_precalc(p.mesh_points, p.mesh_normals, p.mesh_faces,
                             p.mesh_interpolate)
        coarse == mesh_precalc(p.mesh_coarse_points, p.mesh_coarse_normals,
                               p.mesh_coarse_faces, p.mesh_interpolate)
        p1 == [p EXCEPT !.mesh = fine.mesh]
    IN  IF fine.raised THEN [raised |-> TRUE, exc |-> fine.exc, param |-> p]
        ELSE IF p.mesh_coarse_points = <<>>
        THEN [raised |-> FALSE, exc |-> "none", param |-> p1]
        ELSE IF coarse.raised
        THEN [raised |-> TRUE, exc |-> coarse.exc, param |-> p1]
        ELSE [raised |-> FALSE, exc |-> "none",
              param |-> [p1 EXCEPT !.mesh_coarse = coarse.mesh]]

---------------------------------------------------------------------------
(* XicsrtOpticMesh: trace *)

\* The locals of a call, before it has run.
NoTrace ==
    [ op |-> "none",
      refined |-> FALSE,      \* the refinement path was taken
      tested |-> FALSE,       \* the intersection test(s) returned
      X_c |-> <<>>, hits_c |-> <<>>,
      num_rays_coarse |-> 0, num_rays_fine |-> 0, num_rays_lost |-> 0,
      warnings |-> 0,         \* calls of self.log.warning
      idx |-> <<>>, faces_idx |-> <<>>, faces_mask |-> <<>>,
      X_i |-> <<>>,           \* X, hits and the mask as the intersection
      hits |-> <<>>,          \*   stage left them
      mask_i |-> <<>>,
      X_arg |-> <<"own">>,    \* the array mesh_interpolate was handed as X
      interpolated |-> FALSE, \* normals came from mesh_interpolate
      inrm |-> <<>>,          \* the interpolated normal components
      read_X |-> {},          \* rays whose entry of X normal resolution read
      read_hits |-> {},       \* rays whose entry of hits it used as an index
      X |-> <<>>, normals |-> <<>> ]

\* trace without refinement (line 150): i1 is what mesh_intersect_1 on the
\* fine mesh returned.
trace_direct(i1) ==
    [ raised |-> i1.raised, exc |-> IF i1.raised THEN "ValueError" ELSE "none",
      mask |-> i1.mask,
      tr |-> [NoTrace EXCEPT !.op = "trace", !.tested = ~i1.raised,
                             !.X_i = i1.X, !.hits = i1.hits,
                             !.mask_i = i1.mask] ]

\* The refinement path from the fine test on (lines 141-148): c is what
\* mesh_intersect_1 on the coarse mesh returned, nf what find_near_faces
\* returned, i2 what mesh_intersect_2 returned.  When mesh_intersect_2
\* raised, trace ends there: the rays keep the mask of the coarse test, and
\* nothing is counted or logged.
trace_fine(idx, c, nf, i2) ==
    LET num_rays_coarse == CountTrue(c.mask)
        num_rays_fine == CountTrue(i2.mask)
        num_rays_lost == num_rays_coarse - num_rays_fine
        called == [NoTrace EXCEPT
                     !.op = "trace", !.refined = TRUE,
                     !.X_c = c.X, !.hits_c = c.hits,
                     !.num_rays_coarse = num_rays_coarse,
                     !.idx = idx,
                     !.faces_idx = nf.faces_idx,
                     !.faces_mask = nf.faces_mask]
    IN  IF i2.raised
        THEN [ raised |-> TRUE, exc |-> "IndexError", mask |-> i2.mask,
               tr |-> called ]
        ELSE [ raised |-> FALSE, exc |-> "none", mask |-> i2.mask,
               tr |-> [called EXCEPT
                         !.tested = TRUE,
                         !.num_rays_fine = num_rays_fine,
                         !.num_rays_lost = num_rays_lost,
                         !.warnings = IF ~(num_rays_lost = 0) THEN 1 ELSE 0,
                         !.X_i = i2.X, !.hits = i2.hits, !.mask_i = i2.mask] ]

\* The refinement path after the coarse test (lines 139-143).  The rays go
\* on with the mask the coarse test left.
trace_coarse(r, p, idx, c) ==
    IF c.raised
    THEN [raised |-> TRUE, exc |-> "ValueError", mask |-> r.mask,
          tr |-> [NoTrace EXCEPT !.op = "trace", !.refined = TRUE]]
    ELSE trace_fine(idx, c, find_near_faces(idx, p.mesh),
                    mesh_intersect_2([r EXCEPT !.mask = c.mask], p.mesh,
                                     find_near_faces(idx, p.mesh).faces_idx,
                                     find_near_faces(idx, p.mesh).faces_mask))

\* The intersection stage of trace (lines 134-150): [raised, exc, tr, mask].
\* idx is the answer of the tree query for each ray.  self.param has the key
\* 'mesh_coarse' only when a coarse mesh was built.
trace_intersect(r, p, idx) ==
    IF p.mesh_refine # "True" THEN trace_direct(mesh_intersect_1(r, p.mesh))
    ELSE IF ~p.mesh_coarse.built
    THEN [raised |-> TRUE, exc |-> "KeyError", mask |-> r.mask,
          tr |-> [NoTrace EXCEPT !.op = "trace", !.refined = TRUE]]
    ELSE trace_coarse(r, p, idx, mesh_intersect_1(r, p.mesh_coarse))

\* Normal resolution (lines 153-156) after the intersection stage left the
\* locals t: [raised, exc, tr].  garbage[k] is what an unwritten hits[k]
\* holds.
trace_normals(t, p, garbage) ==
    LET N == Len(t.mask_i)
        idxval == [k \in 1..N |->
                     IF t.hits[k] = Uninit THEN garbage[k] ELSE t.hits[k]]
    IN  IF p.mesh_interpolate
        THEN [ raised |-> FALSE, exc |-> "none",
               tr |-> [t EXCEPT
                         !.X_arg = <<"own">>,
                         !.interpolated = TRUE,
                         !.inrm = interp_normals(t.X_i, p.mesh),
                         !.read_X = 1..N,
                         !.X = mesh_interpolate(t.X_i, p.mesh,
                                                interp_normals(t.X_i, p.mesh)).X,
                         !.normals = mesh_interpolate(t.X_i, p.mesh,
                                                      interp_normals(t.X_i, p.mesh)).normals] ]
        ELSE IF mesh_normals(idxval, p.mesh).raised
        THEN [ raised |-> TRUE, exc |-> "IndexError",
               tr |-> [t EXCEPT !.read_hits = 1..N] ]
        ELSE [ raised |-> FALSE, exc |-> "none",
               tr |-> [t EXCEPT !.read_hits = 1..N,
                                !.X = t.X_i,
                                !.normals = mesh_normals(idxval, p.mesh).normals] ]

\* self.reflect_vectors(X, rays, normals) (line 157), a method of
\* XicsrtOpticGeneric whose body is not among the sources.  The batch leaves
\* the optic with the origin of every active ray replaced by its hit point,
\* and the call mirrors the direction of an active ray at the surface, that is
\* about its resolved normal n: D - 2 (D . n) n.  The rays that are not active
\* and the other fields of the batch are returned as handed in.
reflect_vectors(X, r, normals) ==
    [r EXCEPT
       !.origin = ndarray([k \in 1..Len(r.mask) |->
                     IF r.mask[k] THEN X[k] ELSE r.origin[k]]),
       !.direction = ndarray([k \in 1..Len(r.mask) |->
                        IF r.mask[k]
                        THEN VSub(r.direction[k],
                                  VScale(FMul(Q(2, 1), Dot(r.direction[k], normals[k])),
                                         normals[k]))
                        ELSE r.direction[k]]) ]

\* The end of trace (lines 157-160): the batch it returns, or, when normal
\* resolution raised, the caller's batch with the mask the tests left.
trace_return(nr, r) ==
    IF nr.raised THEN r ELSE reflect_vectors(nr.tr.X, r, nr.tr.normals)
---------------------------------------------------------------------------
(* XicsrtOpticMesh: inputs *)

\* Largest number of faces of a fan mesh.
MaxFaces == 9

\* A fan of n triangles around the vertex 0 at the origin: the rim vertices
\* 1..n+1 lie at (0,1,0), (1,1,0), ..., (n,1,0) and face i (1-based) joins
\* the centre to the rim vertices i and i+1.
FanPoints(n) == <<IVec(0, 0, 0)>> \o [i \in 1..(n + 1) |-> IVec(i - 1, 1, 0)]

FanFaces(n) == [i \in 1..n |-> <<0, i, i + 1>>]

\* The faces of the fan whose first rim vertex is in S, in their order.
FanPart(S) == SelectSeq(FanFaces(MaxFaces), LAMBDA f : f[2] \in S)

\* Configs of the fan meshes: every non-empty part of the full fan over its
\* vertices, no normals supplied and no coarse mesh.
FanConfigs ==
    { [ use_meshgrid |-> TRUE,
        mesh_points |-> FanPoints(MaxFaces), mesh_faces |-> FanPart(S),
        mesh_normals |-> <<>>,
        mesh_coarse_points |-> <<>>, mesh_coarse_faces |-> <<>>,
        mesh_coarse_normals |-> <<>>,
        mesh_interpolate |-> i, mesh_refine |-> "False",
        mesh |-> NoMesh, mesh_coarse |-> NoMesh ] :
      S \in (SUBSET (1..MaxFaces)) \ {{}}, i \in BOOLEAN }

\* The single triangle (0,0,0), (1,0,0), (0,1,0).
TriPoints == <<IVec(0, 0, 0), IVec(1, 0, 0), IVec(0, 1, 0)>>

TriFaces == << <<0, 1, 2>> >>

\* The unit square at z = 0 as two triangles sharing the edge x + y = 1.
SquarePoints == <<IVec(0, 0, 0), IVec(1, 0, 0), IVec(1, 1, 0), IVec(0, 1, 0)>>

SquareFaces == << <<0, 1, 3>>, <<1, 2, 3>> >>

\* Per-vertex normals as a caller supplies them: those of a gently curved
\* optic, (3/5 (x - y), 0, 1 - 1/5 (x + y)) at the vertex (x, y, 0).  On the
\* triangle they are (0,0,1), (3/5,0,4/5) and (-3/5,0,4/5).
SuppliedNormals(points) ==
    [v \in 1..Len(points) |->
        Vec(FMul(Q(3, 5), FSub(points[v][1], points[v][2])),
            Zero,
            FSub(One, FMul(Q(1, 5), FAdd(points[v][1], points[v][2]))))]

NormalsChoices(points) == {<<>>, SuppliedNormals(points)}

\* (points, faces) of the fine mesh with those of its coarse companion: none
\* (None), or the same geometry.
MeshPairs ==
    { [points |-> TriPoints, faces |-> TriFaces, cpoints |-> <<>>, cfaces |-> <<>>],
      [points |-> TriPoints, faces |-> TriFaces, cpoints |-> TriPoints, cfaces |-> TriFaces],
      [points |-> SquarePoints, faces |-> SquareFaces, cpoints |-> <<>>, cfaces |-> <<>>],
      [points |-> SquarePoints, faces |-> SquareFaces,
       cpoints |-> SquarePoints, cfaces |-> SquareFaces] }

\* The configs of the model: use_meshgrid is True throughout.
Configs ==
    { [ use_meshgrid |-> TRUE,
        mesh_points |-> g.points, mesh_faces |-> g.faces, mesh_normals |-> n,
        mesh_coarse_points |-> g.cpoints, mesh_coarse_faces |-> g.cfaces,
        mesh_coarse_normals |-> cn,
        mesh_interpolate |-> i, mesh_refine |-> rf,
        mesh |-> NoMesh, mesh_coarse |-> NoMesh ] :
      g \in MeshPairs, n \in NormalsChoices(TriPoints) \cup NormalsChoices(SquarePoints),
      cn \in NormalsChoices(TriPoints) \cup NormalsChoices(SquarePoints),
      i \in BOOLEAN, rf \in {"None", "True", "False"} }

ValidConfig(p) ==
    /\ p.mesh_normals \in NormalsChoices(p.mesh_points)
    /\ p.mesh_coarse_normals \in
         (IF p.mesh_coarse_points = <<>> THEN {<<>>}
          ELSE NormalsChoices(p.mesh_coarse_points))

\* The single triangle with a fourth vertex at (1/4,1/4,0) that no face uses:
\* all K slots of that vertex are padding (face index 0, flag False).
TriDotPoints == TriPoints \o <<Vec(Q(1, 4), Q(1, 4), Zero)>>

\* The config with that mesh as fine mesh and the plain triangle as coarse
\* mesh, without normals, refinement asked for.
DotConfig ==
    [ use_meshgrid |-> TRUE,
      mesh_points |-> TriDotPoints, mesh_faces |-> TriFaces, mesh_normals |-> <<>>,
      mesh_coarse_points |-> TriPoints, mesh_coarse_faces |-> TriFaces,
      mesh_coarse_normals |-> <<>>,
      mesh_interpolate |-> FALSE, mesh_refine |-> "True",
      mesh |-> NoMesh, mesh_coarse |-> NoMesh ]

\* The config of a fine mesh without faces (mesh_faces an array of shape
\* (0, 3)) over the vertices of the triangle, with the plain triangle as
\* coarse mesh, without normals, refinement asked for.
BareConfig == [DotConfig EXCEPT !.mesh_points = TriPoints, !.mesh_faces = <<>>]

\* The config of an interpolated optic whose coarse mesh lies below the fine
\* one: the triangle at height 1/10 as fine mesh, the triangle at height 0 as
\* coarse mesh, the same normals supplied at the vertices of both.
LiftedConfig ==
    [DotConfig EXCEPT
       !.mesh_points = [v \in 1..3 |-> Vec(TriPoints[v][1], TriPoints[v][2], Q(1, 10))],
       !.mesh_normals = SuppliedNormals(TriPoints),
       !.mesh_coarse_normals = SuppliedNormals(TriPoints),
       !.mesh_interpolate = TRUE]

\* Rays: straight down onto the inside of face 0, straight down outside the
\* mesh, straight up away from face 0, straight down onto the edge
\* x + y = 1, parallel to the plane of the mesh above it, and parallel to
\* the plane of the mesh within it.
RayKinds ==
    { [origin |-> Vec(Q(1, 5), Q(1, 5), One), direction |-> IVec(0, 0, -1)],
      [origin |-> IVec(2, 2, 1), direction |-> IVec(0, 0, -1)],
      [origin |-> Vec(Q(1, 5), Q(1, 5), One), direction |-> IVec(0, 0, 1)],
      [origin |-> Vec(Q(1, 2), Q(1, 2), One), direction |-> IVec(0, 0, -1)],
      [origin |-> Vec(Q(1, 5), Q(1, 5), One), direction |-> IVec(1, 0, 0)],
      [origin |-> Vec(Q(1, 5), Q(1, 5), Zero), direction |-> IVec(1, 0, 0)] }

\* The rays that also come inactive (mask False on entry): the one onto the
\* inside of face 0 and the one outside the mesh.
InactiveKinds ==
    { [origin |-> Vec(Q(1, 5), Q(1, 5), One), direction |-> IVec(0, 0, -1)],
      [origin |-> IVec(2, 2, 1), direction |-> IVec(0, 0, -1)] }

RayInputs ==
    {[ray |-> rk, mask |-> TRUE] : rk \in RayKinds}
    \cup {[ray |-> rk, mask |-> FALSE] : rk \in InactiveKinds}

\* A ray batch as the struct of arrays the optic is handed.
Batch(rs) ==
    [ origin |-> [k \in 1..Len(rs) |-> rs[k].ray.origin],
      direction |-> [k \in 1..Len(rs) |-> rs[k].ray.direction],
      mask |-> [k \in 1..Len(rs) |-> rs[k].mask],
      wavelength |-> [k \in 1..Len(rs) |-> Q(k, 1)],
      weight |-> [k \in 1..Len(rs) |-> Q(1, k)] ]

Batches == {Batch(rs) : rs \in UNION {[1..n -> RayInputs] : n \in 0..MaxRays}}

NoRays == Batch(<<>>)

\* The sequences of length Len(S) whose k-th entry is in S[k].
SeqsFrom(S) ==
    {f \in [1..Len(S) -> UNION {S[k] : k \in 1..Len(S)}] :
        \A k \in 1..Len(S) : f[k] \in S[k]}

---------------------------------------------------------------------------
(* Each specification exercises one class and holds the other still *)

\* An optic that is configured and not used (while the frame is exercised).
MeshIdle ==
    /\ param = CHOOSE p \in Configs : ValidConfig(p)
    /\ pc = "config"
    /\ err = "none"
    /\ rays = NoRays
    /\ rays0 = NoRays
    /\ tr = NoTrace

\* A frame that is set up and not used (while the mesh optic is exercised).
FrameIdle ==
    /\ origin = IVec(0, 0, 0)
    /\ orientation = set_orientation(DefaultZAxis, None)
    /\ fcall = [zaxis |-> DefaultZAxis, xaxis |-> None,
                ret |-> <<get_default_xaxis(DefaultZAxis)>>]
    /\ vec = [ndim |-> 1, a |-> <<IVec(1, 0, 0)>>]
    /\ vec0 = vec
    /\ hist = <<>>
    /\ ferr = "none"

\* Where the optic stands: its origin and the z axis of its config.
OpticOrigin == IVec(1, 2, 3)

OpticZAxis == Vec(Zero, Q(3, 5), Q(4, 5))

\* The frame of the optic after setup(), not used by the vector transforms.
FramePlaced ==
    /\ origin = OpticOrigin
    /\ orientation = set_orientation(OpticZAxis, None)
    /\ fcall = [zaxis |-> OpticZAxis, xaxis |-> None,
                ret |-> <<get_default_xaxis(OpticZAxis)>>]
    /\ vec = [ndim |-> 1, a |-> <<IVec(1, 0, 0)>>]
    /\ vec0 = vec
    /\ hist = <<>>
    /\ ferr = "none"

---------------------------------------------------------------------------
(* GeometryObject: the frame's life *)

\* After construction and setup() with the default config.
FrameInit ==
    /\ origin = IVec(0, 0, 0)
    /\ orientation = set_orientation(DefaultZAxis, None)
    /\ fcall = [zaxis |-> DefaultZAxis, xaxis |-> None,
                ret |-> <<get_default_xaxis(DefaultZAxis)>>]
    /\ vec \in Arrays
    /\ vec0 = vec
    /\ hist = <<>>
    /\ ferr = "none"
    /\ MeshIdle

\* self.set_orientation(zaxis, xaxis), between two uses of the frame.  fcall
\* keeps the arguments and, when xaxis is omitted, what the inner call of
\* get_default_xaxis returned.
SetOrientation ==
    /\ ferr = "none"
    /\ hist = <<>>
    /\ \E zaxis \in ZAxes, xaxis \in {<<x>> : x \in XAxes} \cup {None} :
        /\ orientation' = set_orientation(zaxis, xaxis)
        /\ fcall' = [zaxis |-> zaxis, xaxis |-> xaxis,
                     ret |-> IF xaxis = None THEN <<get_default_xaxis(zaxis)>>
                             ELSE None]
    /\ UNCHANGED <<origin, vec, vec0, hist, ferr>>
    /\ UNCHANGED meshVars

\* The caller makes a new array (and handles a raised exception).
NewVector ==
    /\ vec' \in Arrays
    /\ vec0' = vec'
    /\ hist' = <<>>
    /\ ferr' = "none"
    /\ UNCHANGED <<origin, orientation, fcall>>
    /\ UNCHANGED meshVars

\* self.vector_to_external(vec)
VectorToExternal ==
    /\ ferr = "none"
    /\ Len(hist) < MaxOps
    /\ LET r == vector_to_external(orientation, vec)
       IN  IF r.raised
           THEN /\ ferr' = "Exception"
                /\ UNCHANGED <<vec, hist>>
           ELSE /\ vec' = r.vector
                /\ hist' = Append(hist, "ext")
                /\ UNCHANGED ferr
    /\ UNCHANGED <<origin, orientation, fcall, vec0>>
    /\ UNCHANGED meshVars

\* self.vector_to_local(vec)
VectorToLocal ==
    /\ ferr = "none"
    /\ Len(hist) < MaxOps
    /\ LET r == vector_to_local(orientation, vec)
       IN  IF r.raised
           THEN /\ ferr' = "Exception"
                /\ UNCHANGED <<vec, hist>>
           ELSE /\ vec' = r.vector
                /\ hist' = Append(hist, "loc")
                /\ UNCHANGED ferr
    /\ UNCHANGED <<origin, orientation, fcall, vec0>>
    /\ UNCHANGED meshVars

FrameNext ==
    \/ SetOrientation
    \/ NewVector
    \/ VectorToExternal
    \/ VectorToLocal

---------------------------------------------------------------------------
(* XicsrtOpticMesh: the optic's life *)

\* The optic as constructed from a config, before check_param.
MeshInit ==
    /\ param \in {p \in Configs : ValidConfig(p)} \cup {DotConfig, BareConfig, LiftedConfig}
    /\ pc = "config"
    /\ err = "none"
    /\ rays = NoRays
    /\ rays0 = NoRays
    /\ tr = NoTrace
    /\ FramePlaced

\* self.check_param()
CheckParam ==
    /\ pc = "config"
    /\ LET r == check_param(param)
       IN  /\ param' = r.param
           /\ pc' = IF r.raised THEN "raised" ELSE "checked"
           /\ err' = r.exc
    /\ UNCHANGED <<rays, rays0, tr>>
    /\ UNCHANGED frameVars

\* self.initialize(): mesh_initialize() is run when use_meshgrid is True,
\* and nothing is built otherwise.
Initialize ==
    /\ pc = "checked"
    /\ LET r == IF param.use_meshgrid THEN mesh_initialize(param)
                ELSE [raised |-> FALSE, exc |-> "none", param |-> param]
       IN  /\ param' = r.param
           /\ pc' = IF r.raised THEN "raised" ELSE "ready"
           /\ err' = r.exc
    /\ UNCHANGED <<rays, rays0, tr>>
    /\ UNCHANGED frameVars

\* Mutant of store: the array written is the model's own faces_center, as
\* if the methods used that array as their buffer for X.
store_shared(p, ref, a) == [p EXCEPT !.mesh.faces_center = a]

\* An assignment into the array ref refers to, after which it holds a (X[:, 2]
\* = ... of mesh_interpolate, line 165, assigns into the array the caller
\* handed in as X, not into a copy).  ref is <<"own">> for an array that is
\* none of self.param, and <<model, key>> for self.param[model][key];
\* store gives self.param after the assignment.
store(p, ref, a) ==
    IF ref[1] = "own" THEN p ELSE [p EXCEPT ![ref[1]][ref[2]] = a]

\* self.mesh_intersect_1(rays, self.param['mesh']) on a batch of the caller.
\* The method assigns to X, hits, m_temp and m_temp_2, which it makes itself
\* (np.zeros, np.empty), and with m &= m_temp_2 to rays['mask'], an array of
\* the caller (no array of a model has the shape of a mask); p0, p1 and p2
\* are taken from the model with integer-array indices, which copy.
CallMeshIntersect1 ==
    /\ pc = "ready"
    /\ \E b \in Batches :
         \E r \in {mesh_intersect_1(b, param.mesh)} :
             /\ rays0' = b
             /\ rays' = [b EXCEPT !.mask = r.mask]
             /\ tr' = [NoTrace EXCEPT !.op = "mesh_intersect_1",
                                      !.tested = ~r.raised, !.X_i = r.X,
                                      !.hits = r.hits, !.mask_i = r.mask]
             /\ pc' = IF r.raised THEN "raised" ELSE "returned"
             /\ err' = IF r.raised THEN "ValueError" ELSE "none"
             /\ param' = store(param, <<"own">>, r.mask)
    /\ UNCHANGED frameVars

\* Largest number of rays in a batch handed to mesh_intersect_2 directly.
MaxDirect == 1

\* self.mesh_intersect_2(rays, self.param['mesh'], faces_idx, faces_mask) on
\* a batch of the caller, the candidates of every ray being those of the
\* vertex v of the fine mesh (what find_near_faces gives for a point nearest
\* to v).  The method assigns to X and hits, which it makes itself, and with
\* m &= ... to rays['mask']; faces, p0, p1, p2 and n are copies.
CallMeshIntersect2 ==
    /\ pc = "ready"
    /\ \E b \in {bb \in Batches : Len(bb.mask) <= MaxDirect} :
         \E v \in 0..(Len(param.mesh.points) - 1) :
           \E nf \in {find_near_faces([k \in 1..Len(b.mask) |-> v], param.mesh)} :
             \E r \in {mesh_intersect_2(b, param.mesh, nf.faces_idx, nf.faces_mask)} :
               /\ rays0' = b
               /\ rays' = [b EXCEPT !.mask = r.mask]
               /\ tr' = [NoTrace EXCEPT !.op = "mesh_intersect_2",
                                        !.tested = ~r.raised,
                                        !.faces_idx = nf.faces_idx,
                                        !.faces_mask = nf.faces_mask,
                                        !.X_i = r.X, !.hits = r.hits, !.mask_i = r.mask]
               /\ pc' = IF r.raised THEN "raised" ELSE "returned"
               /\ err' = IF r.raised THEN "IndexError" ELSE "none"
               /\ param' = store(param, <<"own">>, r.mask)
    /\ UNCHANGED frameVars

\* self.find_near_faces(X, self.param['mesh']) on one point of the caller:
\* the tree is asked for the vertex nearest to it, and the candidate slots of
\* that vertex are returned (an index expression with an integer array, a
\* copy).  Nothing is assigned to.
CallFindNearFaces ==
    /\ pc = "ready"
    /\ \E x \in {Vec(Q(1, 5), Q(1, 5), Zero), IVec(1, 1, 0)} :
         \E v \in Nearest(x, param.mesh.points) :
           \E nf \in {find_near_faces(<<v>>, param.mesh)} :
             tr' = [NoTrace EXCEPT !.op = "find_near_faces", !.X_c = <<x>>,
                                   !.idx = <<v>>, !.faces_idx = nf.faces_idx,
                                   !.faces_mask = nf.faces_mask]
    /\ pc' = "returned"
    /\ err' = "none"
    /\ UNCHANGED <<param, rays, rays0>>
    /\ UNCHANGED frameVars

\* self.mesh_normals(hits, self.param['mesh']) on one face index of the
\* caller, that of a face or the first one past the faces
\* (mesh['faces_normal'][hits, :] is a copy).  Nothing is assigned to.
CallMeshNormals ==
    /\ pc = "ready"
    /\ \E f \in 0..Len(param.mesh.faces) :
         \E r \in {mesh_normals(<<f>>, param.mesh)} :
           /\ tr' = [NoTrace EXCEPT !.op = "mesh_normals", !.hits = <<f>>,
                                    !.read_hits = {1}, !.normals = r.normals]
           /\ pc' = IF r.raised THEN "raised" ELSE "returned"
           /\ err' = IF r.raised THEN "IndexError" ELSE "none"
    /\ UNCHANGED <<param, rays, rays0>>
    /\ UNCHANGED frameVars

\* What a caller hands to mesh_interpolate as X: an array of its own, or (the
\* object itself) the vertices or the face centres of the fine model, or the
\* face centres of the coarse model.
XArgs ==
    { <<"own">>, <<"mesh", "points">>, <<"mesh", "faces_center">>,
      <<"mesh_coarse", "faces_center">> }

\* self.mesh_interpolate(X, self.param['mesh'], mask) called by hand.  A fine
\* model built without interpolation has no key 'interp': KeyError, before
\* anything is assigned.  Otherwise X[:, 2] is assigned the interpolated
\* height, in the array the caller handed in.
CallMeshInterpolate ==
    /\ pc = "ready"
    /\ \E ref \in {x \in XArgs : x[1] # "own" => param[x[1]].built} :
         \E X \in {IF ref[1] = "own" THEN <<Vec(Q(1, 5), Q(1, 5), Q(1, 2))>>
                    ELSE param[ref[1]][ref[2]]} :
           IF ~param.mesh.interp
           THEN /\ tr' = [NoTrace EXCEPT !.op = "mesh_interpolate", !.X_arg = ref]
                /\ pc' = "raised"
                /\ err' = "KeyError"
                /\ UNCHANGED param
           ELSE \E r \in {mesh_interpolate(X, param.mesh, interp_normals(X, param.mesh))} :
                  /\ tr' = [NoTrace EXCEPT !.op = "mesh_interpolate", !.X_arg = ref,
                                           !.interpolated = TRUE,
                                           !.inrm = interp_normals(X, param.mesh),
                                           !.X_i = X, !.X = r.X,
                                           !.normals = r.normals]
                  /\ pc' = "returned"
                  /\ err' = "none"
                  /\ param' = store(param, ref, r.X)
    /\ UNCHANGED <<rays, rays0>>
    /\ UNCHANGED frameVars

\* The answers the tree query of trace may give for the points X_c.
QueryChoices(c, points) ==
    IF c.raised THEN {[k \in 1..Len(c.mask) |-> 0]}
    ELSE SeqsFrom([k \in 1..Len(c.mask) |-> Nearest(c.X[k], points)])

IdxChoices(b, p) ==
    IF p.mesh_refine = "True" /\ p.mesh_coarse.built
    THEN QueryChoices(mesh_intersect_1(b, p.mesh_coarse), p.mesh.points)
    ELSE {[k \in 1..Len(b.mask) |-> 0]}

\* What the unwritten entries of hits may hold when mesh_normals reads them:
\* the index of a face, or an integer that is none.
GarbageChoices(st, p) ==
    IF st.raised \/ p.mesh_interpolate
    THEN {[k \in 1..Len(st.mask) |-> 0]}
    ELSE {g \in [1..Len(st.mask) -> 0..Len(p.mesh.faces)] :
            \A k \in 1..Len(st.mask) : st.tr.hits[k] # Uninit => g[k] = 0}

\* self.trace(rays) with use_meshgrid True: the intersection stage, normal
\* resolution and reflect_vectors, whose result trace returns.  The X that
\* trace hands to mesh_interpolate is the array the intersection test made
\* (np.zeros, lines 273 and 351).  (With
\* use_meshgrid False the call is handed to XicsrtOpticGeneric.trace, which
\* is not among the sources; every config of the model has use_meshgrid True.)
Trace ==
    /\ pc = "ready"
    /\ param.use_meshgrid
    /\ \E b \in Batches :
         \E idx \in IdxChoices(b, param) :
           \E st \in {trace_intersect(b, param, idx)} :
             \E garbage \in GarbageChoices(st, param) :
               \E nr \in {IF st.raised THEN [raised |-> TRUE, exc |-> st.exc, tr |-> st.tr]
                           ELSE trace_normals(st.tr, param, garbage)} :
                 /\ rays0' = b
                 /\ rays' = trace_return(nr, [b EXCEPT !.mask = st.mask])
                 /\ tr' = nr.tr
                 /\ pc' = IF nr.raised THEN "raised" ELSE "returned"
                 /\ err' = nr.exc
                 /\ param' = IF nr.tr.interpolated
                             THEN store(store(param, <<"own">>, st.mask),
                                        nr.tr.X_arg, nr.tr.X)
                             ELSE store(param, <<"own">>, st.mask)
    /\ UNCHANGED frameVars

\* self.ray_to_external(rays, copy) on the batch trace has returned: the
\* rays leave the optic in external coordinates.
RayToExternal ==
    /\ pc = "returned"
    /\ tr.op = "trace"
    /\ \E r \in {ray_to_external(orientation, origin, rays, copy) : copy \in BOOLEAN} :
         /\ rays' = r.ray
         /\ tr' = [tr EXCEPT !.op = "ray_to_external"]
         /\ pc' = IF r.raised THEN "raised" ELSE "external"
         /\ err' = IF r.raised THEN "Exception" ELSE "none"
    /\ UNCHANGED <<param, rays0>>
    /\ UNCHANGED frameVars

\* self.ray_to_local(rays, copy) on a batch in external coordinates.
RayToLocal ==
    /\ pc = "external"
    /\ \E r \in {ray_to_local(orientation, origin, rays, copy) : copy \in BOOLEAN} :
         /\ rays' = r.ray
         /\ tr' = [tr EXCEPT !.op = "ray_to_local"]
         /\ pc' = IF r.raised THEN "raised" ELSE "local"
         /\ err' = IF r.raised THEN "Exception" ELSE "none"
    /\ UNCHANGED <<param, rays0>>
    /\ UNCHANGED frameVars

\* The call is over (returned or raised): the caller drops what it got, and
\* the optic, which keeps self.param between calls, is used again.
Release ==
    /\ pc \in {"returned", "raised", "external", "local"}
    /\ tr.op # "none"
    /\ pc' = "ready"
    /\ err' = "none"
    /\ rays' = NoRays
    /\ rays0' = NoRays
    /\ tr' = NoTrace
    /\ UNCHANGED param
    /\ UNCHANGED frameVars

MeshNext ==
    \/ CheckParam
    \/ Initialize
    \/ CallMeshIntersect1
    \/ CallMeshIntersect2
    \/ CallFindNearFaces
    \/ CallMeshNormals
    \/ CallMeshInterpolate
    \/ Trace
    \/ RayToExternal
    \/ RayToLocal
    \/ Release

\* An optic over a fan mesh as constructed from its config.
SetupInit ==
    /\ param \in FanConfigs
    /\ pc = "config"
    /\ err = "none"
    /\ rays = NoRays
    /\ rays0 = NoRays
    /\ tr = NoTrace
    /\ FrameIdle

SetupNext ==
    \/ CheckParam
    \/ Initialize

---------------------------------------------------------------------------
(* Specifications *)

\* The coordinate frame in use.
SpecFrame == FrameInit /\ [][FrameNext]_vars

\* The mesh optic in use.
SpecMesh == MeshInit /\ [][MeshNext]_vars

\* The setup of the mesh optic over the fan meshes.
SpecSetup == SetupInit /\ [][SetupNext]_vars

---------------------------------------------------------------------------
(* Claims about the coordinate frame (checked under SpecFrame) *)

\* Column j of a 3x3 matrix.
Col(R, j) == <<R[1][j], R[2][j], R[3][j]>>

\* The rows of R are unit length, mutually orthogonal and right-handed
\* (row 2 = row 3 x row 1, i.e. y = z x x).
OrthonormalRH(R) ==
    /\ \A i \in 1..3 : Dot(R[i], R[i]) = One
    /\ \A i, j \in 1..3 : i # j => Dot(R[i], R[j]) = Zero
    /\ R[2] = Cross(R[3], R[1])

IsUnit(v) == Dot(v, v) = One

\* C1: for an orthonormal right-handed orientation and every vector, single
\* or batched, local->external->local and external->local->external give the
\* vector back.
C1_RoundTrip ==
    (/\ OrthonormalRH(orientation)
     /\ hist \in {<<"ext", "loc">>, <<"loc", "ext">>})
    => vec = vec0

\* C1 witness: a batch of two vectors taken to external and back to local
\* coordinates through an orthonormal frame that is not symmetric.
C1_Witness ==
    /\ OrthonormalRH(orientation)
    /\ orientation[1] = Vec(Q(-4, 5), Q(3, 5), Zero)
    /\ hist = <<"ext", "loc">>
    /\ vec.ndim = 2
    /\ Len(vec.a) = 2
    /\ vec.a[1] # vec.a[2]
    /\ vec = vec0

\* C2 as stated: vector_to_local contracts along the row index of R,
\* out[j] = sum_i R[i][j]*v[i], and vector_to_external along the column
\* index, out[j] = sum_i R[j][i]*v[i].
C2_Original ==
    /\ hist = <<"loc">> =>
         \A k \in 1..Len(vec.a) :
           \A j \in 1..3 : vec.a[k][j] = Dot(Col(orientation, j), vec0.a[k])
    /\ hist = <<"ext">> =>
         \A k \in 1..Len(vec.a) :
           \A j \in 1..3 : vec.a[k][j] = Dot(orientation[j], vec0.a[k])

\* C2 amended: vector_to_local contracts along the column index of R,
\* out[j] = sum_i R[j][i]*v[i] (the components of v along the three axes),
\* and vector_to_external along the row index, out[j] = sum_i R[i][j]*v[i];
\* the two are transposes of each other, for single vectors and batches.
C2_Amended ==
    /\ hist = <<"loc">> =>
         /\ Len(vec.a) = Len(vec0.a)
         /\ \A k \in 1..Len(vec.a) :
              \A j \in 1..3 : vec.a[k][j] = Dot(orientation[j], vec0.a[k])
    /\ hist = <<"ext">> =>
         /\ Len(vec.a) = Len(vec0.a)
         /\ \A k \in 1..Len(vec.a) :
              \A j \in 1..3 : vec.a[k][j] = Dot(Col(orientation, j), vec0.a[k])

\* C2 witness: vector_to_local has acted on a batch through a frame whose
\* matrix differs from its transpose.
C2_Witness ==
    /\ hist = <<"loc">>
    /\ vec.ndim = 2
    /\ Len(vec.a) = 2
    /\ orientation = <<IVec(0, 1, 0), IVec(0, 0, 1), IVec(1, 0, 0)>>
    /\ vec0.a[1] = IVec(1, 2, 3)
    /\ vec.a[1] = IVec(2, 3, 1)

\* C9 as stated: after set_orientation(zaxis) with xaxis omitted, for every
\* nonzero zaxis the rows of the orientation are unit length, mutually
\* orthogonal and right-handed.
C9_Original ==
    (fcall.xaxis = None /\ fcall.zaxis # IVec(0, 0, 0))
    => OrthonormalRH(orientation)

\* C9 amended: after set_orientation(zaxis) with xaxis omitted, for every
\* zaxis of unit length the rows of the orientation are unit length,
\* mutually orthogonal and right-handed (zaxis is stored as given, never
\* normalised).
C9_Amended ==
    (fcall.xaxis = None /\ IsUnit(fcall.zaxis))
    => OrthonormalRH(orientation)

\* C9 witness: the default x axis was computed for a tilted unit z axis.
C9_Witness ==
    /\ fcall.xaxis = None
    /\ fcall.zaxis = Vec(Zero, Q(3, 5), Q(4, 5))
    /\ orientation = << IVec(-1, 0, 0), Vec(Zero, Q(-4, 5), Q(3, 5)),
                        Vec(Zero, Q(3, 5), Q(4, 5)) >>

\* C10: get_default_xaxis(zaxis) is cross((0,0,1), zaxis) = (-zy, zx, 0)
\* scaled to unit length when that is non-zero, and exactly (1,0,0) when
\* zaxis is parallel or anti-parallel to the global z axis; a function of
\* zaxis alone.
C10_DefaultXaxis ==
    fcall.xaxis = None =>
        LET z == fcall.zaxis
            x == fcall.ret[1]
            c == Vec(FNeg(z[2]), z[1], Zero)
            n == FSqrt(FAdd(FMul(z[1], z[1]), FMul(z[2], z[2])))
        IN  IF z[1] = Zero /\ z[2] = Zero
            THEN x = IVec(1, 0, 0)
            ELSE /\ VScale(n, x) = c
                 /\ IsUnit(x)
                 /\ orientation[1] = x

\* C10 witness: the cross product was non-zero and not of unit length.
C10_Witness ==
    /\ fcall.xaxis = None
    /\ fcall.zaxis = IVec(3, 4, 0)
    /\ fcall.ret = <<Vec(Q(-4, 5), Q(3, 5), Zero)>>

\* C11: vector_to_external and vector_to_local take an array of rank 1 or 2
\* only: called on an array of any other rank (0, 3) they raise, and the
\* array, the origin and the orientation are what they were before the call;
\* called on an array of rank 1 or 2 they do not raise and keep its rank.
C11_RankChecked ==
    [][(VectorToExternal \/ VectorToLocal) =>
          /\ origin' = origin
          /\ orientation' = orientation
          /\ vec'.ndim = vec.ndim
          /\ IF vec.ndim \in {1, 2}
             THEN ferr' = "none" /\ Len(vec'.a) = Len(vec.a)
             ELSE ferr' = "Exception" /\ vec' = vec]_vars

\* A transform has refused an array of rank 3, which is as it was made.
C11_Witness ==
    /\ ferr = "Exception"
    /\ vec.ndim = 3
    /\ vec = vec0
    /\ orientation # set_orientation(DefaultZAxis, None)

---------------------------------------------------------------------------
(* Claims about the mesh optic (checked under SpecMesh) *)

\* Ray k of batch b as a batch of its own.
Solo(b, k) ==
    [ origin |-> <<b.origin[k]>>, direction |-> <<b.direction[k]>>,
      mask |-> <<b.mask[k]>>, wavelength |-> <<b.wavelength[k]>>,
      weight |-> <<b.weight[k]>> ]

\* The ray (O, D) passes the near-parallel, the u and the v test of the
\* triangle (p0, p1, p2), as lines 294, 301 and 307 make them: the ray is
\* dropped when -epsilon < f < epsilon, when u < 0 or u > 1, and when v < 0
\* or u + v > 1.  A comparison with nan is False, so a nan drops no ray.
Accepts(O, D, p0, p1, p2) ==
    LET edge1 == VSub(p1, p0)
        edge2 == VSub(p2, p0)
        h == Cross(D, edge2)
        f == Dot(edge1, h)
        s == VSub(O, p0)
        q == Cross(s, edge1)
        u == FDiv(Dot(s, h), f)
        v == FDiv(Dot(D, q), f)
    IN  /\ ~InEpsilon(f)
        /\ ~(FLt(u, Zero) \/ FGt(u, One))
        /\ ~(FLt(v, Zero) \/ FGt(FAdd(u, v), One))

\* Face ii (1-based) of mesh accepts ray k of batch b.
FaceAccepts(mesh, ii, b, k) ==
    Accepts(b.origin[k], b.direction[k],
            mesh.points[mesh.faces[ii][1] + 1],
            mesh.points[mesh.faces[ii][2] + 1],
            mesh.points[mesh.faces[ii][3] + 1])

IsTriMesh(mesh) == mesh.points = TriPoints /\ mesh.faces = TriFaces

\* The rays of claim C5 and of the failing inputs.
RayHit == [origin |-> Vec(Q(1, 5), Q(1, 5), One), direction |-> IVec(0, 0, -1)]

RayMiss == [origin |-> IVec(2, 2, 1), direction |-> IVec(0, 0, -1)]

RayAway == [origin |-> Vec(Q(1, 5), Q(1, 5), One), direction |-> IVec(0, 0, 1)]

IsRay(b, k, ray) == b.origin[k] = ray.origin /\ b.direction[k] = ray.direction

\* mesh_intersect_1 has been called directly on the fine mesh.
Called1 == tr.op = "mesh_intersect_1"

\* trace has been called and its intersection stage returned.
Traced == tr.op = "trace" /\ tr.tested

\* C3: when mesh_intersect_1 is called on a batch in which some rays are
\* inactive on entry, the call completes without error, the inactive rays
\* stay inactive, and each active ray gets the same accept/reject decision
\* and hit point as when it is tested in a batch of its own.
C3_Original ==
    (Called1 /\ \E k \in 1..Len(rays0.mask) : ~rays0.mask[k]) =>
        /\ pc = "returned"
        /\ \A k \in 1..Len(rays0.mask) : ~rays0.mask[k] => ~rays.mask[k]
        /\ \A k \in 1..Len(rays0.mask) :
             rays0.mask[k] =>
               \E solo \in {mesh_intersect_1(Solo(rays0, k), param.mesh)} :
                 /\ ~solo.raised
                 /\ rays.mask[k] = solo.mask[1]
                 /\ solo.mask[1] => tr.X_i[k] = solo.X[1]

\* C3, the failing input: a batch of one inactive ray on the triangle.  h has
\* the shape (0, 3) and f the shape (0,), and m_temp &= ~(...) raises.
C3_FailingInput ==
    /\ Called1
    /\ IsTriMesh(param.mesh)
    /\ rays0.mask = <<FALSE>>
    /\ pc = "raised"
    /\ err = "ValueError"

\* C4: when the coarse mesh has the vertices and faces of the fine mesh, the
\* refinement path of trace yields for every ray the mask, the hit point and
\* the hit face index of mesh_intersect_1 run directly on the fine mesh.
C4_Original ==
    ( /\ Traced
      /\ tr.refined
      /\ param.mesh_coarse.points = param.mesh.points
      /\ param.mesh_coarse.faces = param.mesh.faces ) =>
        \E d \in {mesh_intersect_1(rays0, param.mesh)} :
          /\ tr.mask_i = d.mask
          /\ \A k \in 1..Len(d.mask) :
               d.mask[k] => tr.X_i[k] = d.X[k] /\ tr.hits[k] = d.hits[k]

\* C4, the failing input: the triangle as coarse and as fine mesh, one active
\* ray from (0.2,0.2,1) along (0,0,1).  The direct test accepts it (t = -1,
\* face 0); mesh_intersect_2 rejects it (dist < 0).
C4_FailingInput ==
    /\ Traced
    /\ tr.refined
    /\ IsTriMesh(param.mesh) /\ IsTriMesh(param.mesh_coarse)
    /\ rays0.mask = <<TRUE>> /\ IsRay(rays0, 1, RayAway)
    /\ mesh_intersect_1(rays0, param.mesh).mask = <<TRUE>>
    /\ mesh_intersect_1(rays0, param.mesh).X = <<Vec(Q(1, 5), Q(1, 5), Zero)>>
    /\ mesh_intersect_1(rays0, param.mesh).hits = <<0>>
    /\ tr.mask_i = <<FALSE>>

\* C5: on the single-face mesh (0,0,0), (1,0,0), (0,1,0) the exhaustive test
\* leaves an active ray from (0.2,0.2,1) along (0,0,-1) active with hit point
\* (0.2,0.2,0) and hit face 0, and an active ray from (2,2,1) along (0,0,-1)
\* with mask False.
C5_TriangleCase ==
    (Called1 /\ IsTriMesh(param.mesh) /\ pc = "returned") =>
        \A k \in 1..Len(rays0.mask) :
          /\ (rays0.mask[k] /\ IsRay(rays0, k, RayHit)) =>
               /\ rays.mask[k]
               /\ tr.X_i[k] = Vec(Q(1, 5), Q(1, 5), Zero)
               /\ tr.hits[k] = 0
          /\ (rays0.mask[k] /\ IsRay(rays0, k, RayMiss)) => ~rays.mask[k]

C5_Witness ==
    /\ Called1 /\ IsTriMesh(param.mesh) /\ pc = "returned"
    /\ rays0.mask = <<TRUE, TRUE>>
    /\ IsRay(rays0, 1, RayHit) /\ IsRay(rays0, 2, RayMiss)
    /\ rays.mask = <<TRUE, FALSE>>
    /\ tr.X_i[1] = Vec(Q(1, 5), Q(1, 5), Zero)
    /\ tr.hits[1] = 0

\* C6: after mesh_intersect_1 returns, a ray's mask is true if and only if
\* it was active on entry and at least one face accepted it; so the mask is
\* only narrowed and a ray accepted by no face becomes inactive.  That is no
\* error: a batch of active rays always returns.
C6_MaskIffAccepted ==
    Called1 =>
        /\ (\A k \in 1..Len(rays0.mask) : rays0.mask[k]) => pc = "returned"
        /\ pc = "returned" =>
             \A k \in 1..Len(rays0.mask) :
               rays.mask[k] <=>
                 ( /\ rays0.mask[k]
                   /\ \E ii \in 1..Len(param.mesh.faces) :
                        FaceAccepts(param.mesh, ii, rays0, k) )

C6_Witness ==
    /\ Called1 /\ pc = "returned"
    /\ Len(param.mesh.faces) = 2
    /\ \E k \in 1..Len(rays0.mask) :
         /\ rays0.mask[k] /\ ~rays.mask[k]
         /\ \A ii \in 1..2 : ~FaceAccepts(param.mesh, ii, rays0, k)
    /\ \E k \in 1..Len(rays0.mask) :
         /\ rays0.mask[k] /\ rays.mask[k]
         /\ FaceAccepts(param.mesh, 2, rays0, k)

\* C7: a ray whose mask is false after the intersection stage never has its
\* hit point X or its hit face index read by normal resolution (mesh_normals
\* or mesh_interpolate); no uninitialised hits entry is used as an index.
C7_Original ==
    Traced =>
        \A k \in 1..Len(tr.mask_i) :
          ~tr.mask_i[k] =>
            /\ k \notin tr.read_X
            /\ k \notin tr.read_hits
            /\ ~(tr.hits[k] = Uninit /\ k \in tr.read_hits)

\* C7, the failing input: the triangle without refinement or interpolation,
\* one active ray from (2,2,1) along (0,0,-1).  No face accepts it, hits[0] is
\* never written, and mesh_normals indexes faces_normal with it: here the
\* memory held no valid face index.
C7_FailingInput ==
    /\ Traced
    /\ IsTriMesh(param.mesh) /\ ~tr.refined /\ ~param.mesh_interpolate
    /\ rays0.mask = <<TRUE>> /\ IsRay(rays0, 1, RayMiss)
    /\ tr.mask_i = <<FALSE>>
    /\ tr.hits = <<Uninit>>
    /\ tr.read_hits = {1}
    /\ pc = "raised" /\ err = "IndexError"

\* C8: the normal that trace resolves for each active ray has unit length:
\* with interpolation it is the vector of the three interpolated components
\* divided by its Euclidean norm, without interpolation it is the flat
\* normal faces_normal[hit] of the ray's face.
C8_Original ==
    (Traced /\ pc = "returned") =>
        \A k \in 1..Len(rays.mask) :
          rays.mask[k] =>
            /\ VNorm(tr.normals[k]) = One
            /\ IF tr.interpolated
               THEN tr.normals[k] = VDivS(tr.inrm[k], VNorm(tr.inrm[k]))
               ELSE tr.normals[k] = param.mesh.faces_normal[tr.hits[k] + 1]

\* C8, the failing input: the triangle with vertex normals (0,0,1),
\* (3/5,0,4/5), (-3/5,0,4/5) and interpolation, one active ray from
\* (0.2,0.2,1) along (0,0,-1).  The interpolated normal is (0,0,23/25); it is
\* multiplied by its norm, not divided: (0,0,529/625).
C8_FailingInput ==
    /\ Traced /\ pc = "returned"
    /\ IsTriMesh(param.mesh) /\ ~tr.refined /\ tr.interpolated
    /\ param.mesh.normals = <<IVec(0, 0, 1), Vec(Q(3, 5), Zero, Q(4, 5)),
                              Vec(Q(-3, 5), Zero, Q(4, 5))>>
    /\ rays0.mask = <<TRUE>> /\ IsRay(rays0, 1, RayHit)
    /\ rays.mask = <<TRUE>>
    /\ tr.inrm = <<Vec(Zero, Zero, Q(23, 25))>>
    /\ tr.normals = <<Vec(Zero, Zero, Q(529, 625))>>

\* The rays parallel to the plane z = 0 of the meshes: from above it, and
\* from a point of face 0.
RayAbove == [origin |-> Vec(Q(1, 5), Q(1, 5), One), direction |-> IVec(1, 0, 0)]

RayWithin == [origin |-> Vec(Q(1, 5), Q(1, 5), Zero), direction |-> IVec(1, 0, 0)]

\* The direction D is perpendicular to the normal of face fi (0-based).
ParallelTo(D, mesh, fi) == FEq(Dot(D, mesh.faces_normal[fi + 1]), Zero)

\* C12: a ray whose direction is exactly perpendicular to a face's normal is
\* never accepted by that face, wherever its origin is: mesh_intersect_1 does
\* not record that face as the ray's hit (and leaves the ray inactive when it
\* is parallel to every face), and in mesh_intersect_2 the test of a
\* candidate slot holding that face is False.
C12_ParallelRejected ==
    /\ (Called1 /\ pc = "returned") =>
         \A k \in 1..Len(rays0.mask) :
           /\ rays.mask[k] =>
                ~ParallelTo(rays0.direction[k], param.mesh, tr.hits[k])
           /\ (\A fi \in 0..(Len(param.mesh.faces) - 1) :
                 ParallelTo(rays0.direction[k], param.mesh, fi)) => ~rays.mask[k]
    /\ (Traced /\ tr.refined) =>
         \E test \in {candidate_tests(rays0, param.mesh, tr.faces_idx, tr.faces_mask)} :
           \A k \in 1..Len(rays0.mask) :
             /\ tr.mask_i[k] =>
                  ~ParallelTo(rays0.direction[k], param.mesh, tr.hits[k])
             /\ \A i \in 1..K :
                  ( /\ tr.faces_mask[k][i]
                    /\ ParallelTo(rays0.direction[k], param.mesh, tr.faces_idx[k][i]) )
                  => ~test[k][i]

\* mesh_intersect_1 has returned from a batch of two active rays parallel to
\* the mesh, one from above it and one from a point of face 0.
C12_Witness ==
    /\ Called1 /\ pc = "returned"
    /\ rays0.mask = <<TRUE, TRUE>>
    /\ IsRay(rays0, 1, RayAbove) /\ IsRay(rays0, 2, RayWithin)
    /\ param.mesh.faces # <<>>
    /\ ParallelTo(rays0.direction[2], param.mesh, 0)
    /\ rays.mask = <<FALSE, FALSE>>

---------------------------------------------------------------------------
(* Claims about the mesh precompute (checked under SpecSetup) *)

\* faces_num for the vertex v (0-based): the number of entries of the list
\* faces equal to v, a face that names the vertex twice counting twice.
Degree(faces, v) == Len(NonzeroRows(faces, v, 1))

\* The largest number of faces around a vertex.
MaxDegree(points, faces) ==
    CHOOSE d \in 0..(3 * Len(faces)) :
        /\ \A v \in 1..Len(points) : Degree(faces, v - 1) <= d
        /\ \E v \in 1..Len(points) : Degree(faces, v - 1) = d

\* self.initialize() has run.
Initialized == pc \in {"ready", "raised"} /\ tr.op = "none" /\ err # "KeyError"

\* C13: for a mesh in which each vertex belongs to at most 8 faces the
\* adjacency table is built, every slot (k, v) whose validity flag is set
\* holds the index of a face that contains the vertex v, and every face is
\* held in a valid slot of each of its three vertices.
C13_Adjacency ==
    (Initialized /\ MaxDegree(param.mesh_points, param.mesh_faces) <= K) =>
        /\ pc = "ready"
        /\ param.mesh.built
        /\ \A v \in 1..Len(param.mesh.points) : \A k \in 1..K :
             param.mesh.p_faces_mask[v][k] =>
               /\ param.mesh.p_faces_idx[v][k] \in 0..(Len(param.mesh.faces) - 1)
               /\ \E c \in 1..3 :
                    param.mesh.faces[param.mesh.p_faces_idx[v][k] + 1][c] = v - 1
        /\ \A f \in 1..Len(param.mesh.faces) : \A c \in 1..3 :
             \E k \in 1..K :
               /\ param.mesh.p_faces_mask[param.mesh.faces[f][c] + 1][k]
               /\ param.mesh.p_faces_idx[param.mesh.faces[f][c] + 1][k] = f - 1

\* The table of a fan of 8 faces has been built: its centre fills all 8
\* slots, a rim vertex between two faces fills two.
C13_Witness ==
    /\ pc = "ready"
    /\ param.mesh.faces = FanPart(1..8)
    /\ param.mesh.p_faces_idx[1] = <<0, 1, 2, 3, 4, 5, 6, 7>>
    /\ \A k \in 1..K : param.mesh.p_faces_mask[1][k]
    /\ param.mesh.p_faces_idx[3] = <<0, 1, 0, 0, 0, 0, 0, 0>>
    /\ param.mesh.p_faces_mask[3] = <<TRUE, TRUE, FALSE, FALSE, FALSE, FALSE, FALSE, FALSE>>

\* C14: when no per-vertex normals are supplied for a mesh (the fine mesh or
\* its coarse companion), interpolation is disabled without error: setup
\* completes, that mesh gets no interpolators, and trace resolves the flat
\* normal of the hit face.
C14_Original ==
    /\ ( /\ Initialized
         /\ \/ param.mesh_normals = <<>>
            \/ (param.mesh_coarse_points # <<>> /\ param.mesh_coarse_normals = <<>>) ) =>
           /\ pc = "ready"
           /\ param.mesh_normals = <<>> => ~param.mesh.interp
           /\ (param.mesh_coarse_points # <<>> /\ param.mesh_coarse_normals = <<>>) =>
                ~param.mesh_coarse.interp
    /\ (Traced /\ pc = "returned" /\ param.mesh_normals = <<>>) =>
           /\ ~tr.interpolated
           /\ \A k \in 1..Len(rays.mask) :
                rays.mask[k] => tr.normals[k] = param.mesh.faces_normal[tr.hits[k] + 1]

\* C14, the failing input: the triangle as fine mesh with vertex normals and
\* as coarse mesh without, interpolation requested.  check_param keeps
\* mesh_interpolate (the fine normals are there), and _mesh_precalc on the
\* coarse mesh evaluates normals[:, 0] on None: TypeError.
C14_FailingInput ==
    /\ Initialized
    /\ param.mesh_points = TriPoints /\ param.mesh_coarse_points = TriPoints
    /\ param.mesh_normals = SuppliedNormals(TriPoints)
    /\ param.mesh_coarse_normals = <<>>
    /\ param.mesh_interpolate
    /\ param.mesh.built /\ ~param.mesh_coarse.built
    /\ pc = "raised" /\ err = "TypeError"

\* The models of an optic and their arrays.
Models == {"mesh", "mesh_coarse"}

ModelArrays ==
    {"points", "faces", "normals", "faces_center", "faces_normal",
     "p_faces_idx", "p_faces_mask"}

\* A step that is a call of one of the six methods on the initialised optic,
\* whatever calls came before it.
MethodCall ==
    /\ pc = "ready"
    /\ tr'.op \in {"mesh_intersect_1", "find_near_faces", "mesh_intersect_2",
                   "mesh_normals", "mesh_interpolate", "trace"}

Reflected == reflect_vectors(tr.X, [rays0 EXCEPT !.mask = tr.mask_i], tr.normals)

\* C16: ray_to_external and ray_to_local change only the origin and the
\* direction of a ray batch, mesh_intersect_1 and mesh_intersect_2 (run
\* directly, or by a call of trace that raised after them) only its mask;
\* the wavelength and the weight of every ray are what they were on entry
\* after each of the four, and after trace.
C16_RayAttributes ==
    /\ tr.op # "none" =>
         /\ rays.wavelength = rays0.wavelength
         /\ rays.weight = rays0.weight
    /\ (tr.op \in {"mesh_intersect_1", "mesh_intersect_2"} \/ (tr.op = "trace" /\ pc = "raised")) =>
         /\ rays.origin = rays0.origin
         /\ rays.direction = rays0.direction
    /\ tr.op \in {"mesh_intersect_1", "mesh_intersect_2"} => rays.mask = tr.mask_i
    /\ tr.op \in {"ray_to_external", "ray_to_local"} =>
         /\ rays.mask = tr.mask_i
         /\ Len(rays.origin) = Len(rays0.origin)
         /\ Len(rays.direction) = Len(rays0.direction)
    /\ tr.op = "ray_to_external" =>
         /\ rays.origin =
              point_to_external(orientation, origin,
                                [ndim |-> 2, a |-> Reflected.origin]).vector.a
         /\ rays.direction =
              vector_to_external(orientation,
                                 [ndim |-> 2, a |-> Reflected.direction]).vector.a
    /\ tr.op = "ray_to_local" =>
         /\ rays.origin = Reflected.origin
         /\ rays.direction = Reflected.direction

\* Two rays that went through the refinement path of trace (one accepted,
\* one rejected) have been taken to external coordinates: the accepted ray
\* from (0.2,0.2,1) left trace at its hit point (0.2,0.2,0), which in the
\* frame at (1,2,3) with z axis (0,3/5,4/5) is (4/5, 46/25, 78/25).
C16_Witness ==
    /\ tr.op = "ray_to_external" /\ tr.refined
    /\ rays0.mask = <<TRUE, TRUE>> /\ rays.mask = <<TRUE, FALSE>>
    /\ IsRay(rays0, 1, RayHit)
    /\ Reflected.origin[1] = Vec(Q(1, 5), Q(1, 5), Zero)
    /\ rays.origin[1] = Vec(Q(4, 5), Q(46, 25), Q(78, 25))
    /\ rays.direction[1] # rays0.direction[1]
    /\ rays.wavelength = <<Q(1, 1), Q(2, 1)>>
    /\ rays.weight = <<Q(1, 1), Q(1, 2)>>

\* C17: when a vertex belongs to more than 8 faces, find_point_faces
\* completes without raising and keeps the first 8 faces of that vertex (in
\* face order), all 8 slots valid.
C17_Original ==
    (Initialized /\ MaxDegree(param.mesh_points, param.mesh_faces) > K) =>
        /\ pc = "ready"
        /\ param.mesh.built
        /\ \A v \in 1..Len(param.mesh_points) :
             Degree(param.mesh_faces, v - 1) > K =>
               /\ param.mesh.p_faces_idx[v] =
                    SubSeq(NonzeroRows(param.mesh_faces, v - 1, 1), 1, K)
               /\ \A k \in 1..K : param.mesh.p_faces_mask[v][k]

\* C17 as the code has it: when a vertex belongs to more than 8 faces,
\* find_point_faces raises ValueError (p_faces_idx[:faces_num, ii_p] = ii_f
\* assigns more than 8 values to the 8 slots of the column), so does
\* mesh_initialize, and no mesh model is stored.
C17_Amended ==
    (Initialized /\ MaxDegree(param.mesh_points, param.mesh_faces) > K) =>
        /\ pc = "raised"
        /\ err = "ValueError"
        /\ ~param.mesh.built

\* The full fan, whose centre belongs to 9 faces, has been refused.
C17_Witness ==
    /\ Initialized
    /\ param.mesh_faces = FanFaces(9)
    /\ Degree(param.mesh_faces, 0) = 9
    /\ pc = "raised" /\ err = "ValueError"
    /\ ~param.mesh.built

\* normalize(cross(p0 - p1, p2 - p1)) of face i (1-based) of a mesh model.
WindingNormal(mesh, i) ==
    LET p0 == mesh.points[mesh.faces[i][1] + 1]
        p1 == mesh.points[mesh.faces[i][2] + 1]
        p2 == mesh.points[mesh.faces[i][3] + 1]
        c == Cross(VSub(p0, p1), VSub(p2, p1))
    IN  VDivS(c, VNorm(c))

\* The face normals a model can take from its per-vertex normals: the normal
\* of one of the face's vertices, or the normalised sum of the three.
FromVertexNormals(mesh, i) ==
    LET n0 == mesh.normals[mesh.faces[i][1] + 1]
        n1 == mesh.normals[mesh.faces[i][2] + 1]
        n2 == mesh.normals[mesh.faces[i][3] + 1]
        sum == VAdd(VAdd(n0, n1), n2)
    IN  {n0, n1, n2, VDivS(sum, VNorm(sum))}

\* C18: when per-vertex normals are supplied to the mesh precompute each
\* face's normal is taken from them; only when none are given is it computed
\* from the winding order as normalize(cross(p0 - p1, p2 - p1)).
C18_Original ==
    param.mesh.built =>
        \A i \in 1..Len(param.mesh.faces) :
          IF param.mesh_normals = <<>>
          THEN param.mesh.faces_normal[i] = WindingNormal(param.mesh, i)
          ELSE param.mesh.faces_normal[i] \in FromVertexNormals(param.mesh, i)

\* C18 as the code has it: each face's normal is computed from the winding
\* order as normalize(cross(p0 - p1, p2 - p1)) whether or not per-vertex
\* normals are supplied; the supplied normals are stored as they are (and
\* feed the interpolators only).  The same holds for the coarse mesh.
C18_Amended ==
    /\ param.mesh.built =>
         /\ param.mesh.normals = param.mesh_normals
         /\ Len(param.mesh.faces_normal) = Len(param.mesh.faces)
         /\ \A i \in 1..Len(param.mesh.faces) :
              param.mesh.faces_normal[i] = WindingNormal(param.mesh, i)
    /\ param.mesh_coarse.built =>
         /\ param.mesh_coarse.normals = param.mesh_coarse_normals
         /\ \A i \in 1..Len(param.mesh_coarse.faces) :
              param.mesh_coarse.faces_normal[i] = WindingNormal(param.mesh_coarse, i)

\* The triangle has been built with the vertex normals (0,0,1),
\* (3/5,0,4/5), (-3/5,0,4/5): its face normal is (0,0,-1), that of the
\* winding order.
C18_Witness ==
    /\ pc = "ready"
    /\ IsTriMesh(param.mesh)
    /\ param.mesh.normals = SuppliedNormals(TriPoints)
    /\ param.mesh.faces_normal = <<IVec(0, 0, -1)>>
    /\ IVec(0, 0, -1) \notin FromVertexNormals(param.mesh, 1)

\* The point where ray k of batch b meets the plane of face ii (1-based):
\* O + t D with t = edge2 . q / f.
FacePoint(mesh, ii, b, k) ==
    LET p0 == mesh.points[mesh.faces[ii][1] + 1]
        edge1 == VSub(mesh.points[mesh.faces[ii][2] + 1], p0)
        edge2 == VSub(mesh.points[mesh.faces[ii][3] + 1], p0)
        f == Dot(edge1, Cross(b.direction[k], edge2))
        q == Cross(VSub(b.origin[k], p0), edge1)
    IN  VAdd(b.origin[k], VScale(FDiv(Dot(edge2, q), f), b.direction[k]))

\* The faces (1-based) of mesh that accept ray k of batch b.
AcceptingFaces(mesh, b, k) ==
    {ii \in 1..Len(mesh.faces) : FaceAccepts(mesh, ii, b, k)}

\* The ray from (1/2,1/2,1) along (0,0,-1), onto the edge the two faces of
\* the square share.
RayEdge == [origin |-> Vec(Q(1, 2), Q(1, 2), One), direction |-> IVec(0, 0, -1)]

\* C19: after mesh_intersect_1 returns, the hit face recorded for a ray that
\* is left active is the accepting face with the highest index, and the hit
\* point is the ray's point on that face, also when several faces accept the
\* ray.
C19_LastFaceWins ==
    (Called1 /\ pc = "returned") =>
        \A k \in 1..Len(rays.mask) :
          rays.mask[k] =>
            \E last \in AcceptingFaces(param.mesh, rays0, k) :
              /\ \A ii \in AcceptingFaces(param.mesh, rays0, k) : ii <= last
              /\ tr.hits[k] = last - 1
              /\ tr.X_i[k] = FacePoint(param.mesh, last, rays0, k)

\* The ray onto the shared edge of the square is accepted by face 0 and by
\* face 1; face 1 is recorded.
C19_Witness ==
    /\ Called1 /\ pc = "returned"
    /\ param.mesh.faces = SquareFaces
    /\ rays0.mask = <<TRUE>> /\ IsRay(rays0, 1, RayEdge)
    /\ AcceptingFaces(param.mesh, rays0, 1) = {1, 2}
    /\ rays.mask = <<TRUE>>
    /\ tr.hits = <<1>>
    /\ tr.X_i = <<Vec(Q(1, 2), Q(1, 2), Zero)>>

\* The point x lies in the plane of the triangle (p0, p1, p2) and on the
\* inner side of each of its three edges (the edges included).
InTriangle(x, p0, p1, p2) ==
    LET n == Cross(VSub(p1, p0), VSub(p2, p0))
    IN  /\ \A c \in 1..3 : IsFin(x[c])
        /\ FEq(Dot(n, VSub(x, p0)), Zero)
        /\ FGe(Dot(Cross(VSub(p1, p0), VSub(x, p0)), n), Zero)
        /\ FGe(Dot(Cross(VSub(p2, p1), VSub(x, p1)), n), Zero)
        /\ FGe(Dot(Cross(VSub(p0, p2), VSub(x, p2)), n), Zero)

\* The slots (1..K) of ray k whose candidate passes: the slot is valid, the
\* ray parameter of the plane intersection is not negative and the
\* intersection lies inside the candidate face.
PassingSlots(b, mesh, faces_idx, faces_mask, k) ==
    {i \in 1..K :
        /\ faces_mask[k][i]
        /\ \E cand \in {candidate(b.origin[k], b.direction[k], mesh, faces_idx[k][i])} :
             /\ FGe(cand.dist, Zero)
             /\ InTriangle(cand.intersect,
                           mesh.points[mesh.faces[faces_idx[k][i] + 1][1] + 1],
                           mesh.points[mesh.faces[faces_idx[k][i] + 1][2] + 1],
                           mesh.points[mesh.faces[faces_idx[k][i] + 1][3] + 1])}

\* mesh_intersect_2 has been called, directly or by trace on the refinement
\* path (an IndexError before the tests have returned is its own).
Called2 ==
    \/ tr.op = "mesh_intersect_2"
    \/ tr.op = "trace" /\ tr.refined /\ (tr.tested \/ err = "IndexError")

\* Where mesh_intersect_2 returns: a candidate passes for a ray exactly if
\* its slot is valid, the ray parameter of the plane intersection is not
\* negative and the intersection lies inside the triangle; a ray stays
\* active exactly if it was active on entry and has a passing candidate, and
\* its hit face and hit point are those of its passing candidate in the
\* lowest slot.
LowestSlotWins ==
    \E test \in {candidate_tests(rays0, param.mesh, tr.faces_idx, tr.faces_mask)} :
      \A k \in 1..Len(rays0.mask) :
        \E pass \in {PassingSlots(rays0, param.mesh, tr.faces_idx, tr.faces_mask, k)} :
          /\ \A i \in 1..K : test[k][i] <=> i \in pass
          /\ tr.mask_i[k] <=>
               /\ IF tr.op = "trace" THEN tr.hits_c[k] # Uninit ELSE rays0.mask[k]
               /\ pass # {}
          /\ tr.mask_i[k] =>
               \E i \in pass :
                 /\ \A j \in pass : i <= j
                 /\ tr.hits[k] = tr.faces_idx[k][i]
                 /\ tr.X_i[k] = candidate(rays0.origin[k], rays0.direction[k],
                                          param.mesh, tr.faces_idx[k][i]).intersect

\* C20: in mesh_intersect_2 a candidate passes for a ray only if its slot is
\* valid, the ray parameter of the plane intersection is not negative and
\* the intersection lies inside the triangle; among a ray's passing
\* candidates the one in the lowest slot is recorded as hit face and hit
\* point, and a ray with no passing candidate becomes inactive.
C20_Original ==
    Called2 =>
        /\ tr.tested => LowestSlotWins
        /\ \A k \in 1..Len(rays0.mask) :
             PassingSlots(rays0, param.mesh, tr.faces_idx, tr.faces_mask, k) = {}
                 => ~rays.mask[k]

\* C20, the failing input: a fine mesh without faces over the vertices of the
\* triangle, the triangle as coarse mesh; trace of one active ray from
\* (0.2,0.2,1) along (0,0,-1).  The coarse test accepts the ray; its 8
\* candidates are padding (face index 0, flag False), so none passes.
\* mesh['faces'][faces_idx] looks up face 0 of a mesh that has none:
\* IndexError, and the ray is still active.
C20_FailingInput ==
    /\ tr.op = "trace" /\ tr.refined /\ ~tr.tested
    /\ param.mesh.points = TriPoints /\ param.mesh.faces = <<>>
    /\ IsTriMesh(param.mesh_coarse)
    /\ rays0.mask = <<TRUE>> /\ IsRay(rays0, 1, RayHit)
    /\ tr.hits_c = <<0>>
    /\ \A i \in 1..K : tr.faces_idx[1][i] = 0 /\ ~tr.faces_mask[1][i]
    /\ PassingSlots(rays0, param.mesh, tr.faces_idx, tr.faces_mask, 1) = {}
    /\ pc = "raised" /\ err = "IndexError"
    /\ rays.mask = <<TRUE>>

\* Ray k of batch b meets the plane of face fi (0-based) of mesh at a
\* non-negative ray parameter, inside the face.
PassesThrough(b, mesh, fi, k) ==
    \E cand \in {candidate(b.origin[k], b.direction[k], mesh, fi)} :
        /\ FGe(cand.dist, Zero)
        /\ InTriangle(cand.intersect,
                      mesh.points[mesh.faces[fi + 1][1] + 1],
                      mesh.points[mesh.faces[fi + 1][2] + 1],
                      mesh.points[mesh.faces[fi + 1][3] + 1])

\* Where mesh_intersect_2 returns: the test of a padded slot is False, the
\* face recorded for a ray that stays active is held by a valid slot that
\* passes, and no face is recorded for a ray whose slots are all padding,
\* also when it passes through face 0, the face index the padding holds.
PaddingNeverHits ==
    \E test \in {candidate_tests(rays0, param.mesh, tr.faces_idx, tr.faces_mask)} :
      \A k \in 1..Len(rays0.mask) :
        /\ \A i \in 1..K : ~tr.faces_mask[k][i] => ~test[k][i]
        /\ tr.mask_i[k] =>
             \E i \in 1..K :
               /\ tr.faces_mask[k][i]
               /\ tr.faces_idx[k][i] = tr.hits[k]
               /\ PassesThrough(rays0, param.mesh, tr.faces_idx[k][i], k)
        /\ (\A i \in 1..K : ~tr.faces_mask[k][i]) => tr.hits[k] = Uninit

\* C21: a candidate slot whose validity flag is False never produces a hit in
\* mesh_intersect_2: for a vertex with fewer than 8 faces the padded slots
\* (stored face index 0) never cause face 0 to be recorded as the hit face
\* or keep the ray active, also when the ray passes through face 0.
C21_Original ==
    Called2 =>
        /\ tr.tested => PaddingNeverHits
        /\ \A k \in 1..Len(rays0.mask) :
             (\A i \in 1..K : ~tr.faces_mask[k][i]) => ~rays.mask[k]

\* C21, the failing input: a fine mesh without faces over the vertices of the
\* triangle; mesh_intersect_2 called on one active ray from (0.2,0.2,1) along
\* (0,0,-1) with the candidates of vertex 0, which are all padding.  The
\* padded slots are looked up in mesh['faces'] all the same: IndexError, and
\* the ray is still active.
C21_FailingInput ==
    /\ tr.op = "mesh_intersect_2" /\ ~tr.tested
    /\ param.mesh.points = TriPoints /\ param.mesh.faces = <<>>
    /\ rays0.mask = <<TRUE>> /\ IsRay(rays0, 1, RayHit)
    /\ \A i \in 1..K : tr.faces_idx[1][i] = 0 /\ ~tr.faces_mask[1][i]
    /\ pc = "raised" /\ err = "IndexError"
    /\ rays.mask = <<TRUE>>

\* The loss accounting of the refinement path (lines 139-149): the number of
\* rays lost is the number active after the coarse test less the number
\* active after the fine test, is not negative, and one warning is logged
\* exactly when it is not zero.
LossAccounted ==
    /\ tr.num_rays_coarse = Cardinality({k \in 1..Len(tr.hits_c) : tr.hits_c[k] # Uninit})
    /\ tr.num_rays_fine = CountTrue(tr.mask_i)
    /\ tr.num_rays_lost = tr.num_rays_coarse - tr.num_rays_fine
    /\ tr.num_rays_lost >= 0
    /\ tr.warnings \in {0, 1}
    /\ tr.warnings = 1 <=> tr.num_rays_lost # 0

\* Normal resolution was entered with the masks the fine test left: no ray
\* was tested again.
ResolvedWithoutRetest ==
    /\ tr.interpolated \/ tr.read_hits = 1..Len(tr.mask_i)
    /\ rays.mask = tr.mask_i

\* C22: on the refinement path the number of rays lost is (active after the
\* coarse test) minus (active after the fine test) and never negative, a
\* warning is logged exactly when it is non-zero, and in either case trace
\* goes on to normal resolution without raising and without testing the lost
\* rays again.
C22_Original ==
    (Traced /\ tr.refined) =>
        /\ LossAccounted
        /\ ResolvedWithoutRetest
        /\ pc = "returned" /\ err = "none"

\* C22, the failing input: the triangle with the unused vertex as fine mesh,
\* the triangle as coarse mesh, no interpolation; one active ray from
\* (0.2,0.2,1) along (0,0,-1).  The coarse test accepts it, the fine test has
\* only padded candidates: one ray is lost and the warning is logged.
\* hits[0] of the fine test was never written, mesh_normals indexes
\* faces_normal with it, and here the memory held no valid face index.
C22_FailingInput ==
    /\ Traced /\ tr.refined
    /\ param.mesh.points = TriDotPoints /\ ~param.mesh_interpolate
    /\ rays0.mask = <<TRUE>> /\ IsRay(rays0, 1, RayHit)
    /\ tr.num_rays_coarse = 1 /\ tr.num_rays_fine = 0
    /\ tr.num_rays_lost = 1 /\ tr.warnings = 1
    /\ tr.hits = <<Uninit>> /\ tr.read_hits = {1}
    /\ pc = "raised" /\ err = "IndexError"


\* C23: when mesh_refine is unset (None), check_param completes without
\* error and sets mesh_refine to True exactly when coarse mesh points were
\* supplied (trace then takes the refinement path); an explicitly given
\* mesh_refine is left unchanged.
C23_Original ==
    [][ (pc = "config" /\ pc' # "config") =>
          /\ pc' = "checked" /\ err' = "none"
          /\ param.mesh_refine = "None" =>
               param'.mesh_refine =
                   (IF param.mesh_coarse_points # <<>> THEN "True" ELSE "None")
          /\ param.mesh_refine # "None" =>
               param'.mesh_refine = param.mesh_refine ]_vars

\* C23, the failing input: the triangle as fine and as coarse mesh, mesh_refine
\* left unset.  check_param looks up self.param['mesh_course_points'], a key
\* the config does not have: KeyError, and mesh_refine is still None.
C23_FailingInput ==
    /\ pc = "raised" /\ err = "KeyError" /\ tr.op = "none"
    /\ param.mesh_points = TriPoints /\ param.mesh_coarse_points = TriPoints
    /\ param.mesh_refine = "None"
    /\ ~param.mesh.built

===========================================================================
